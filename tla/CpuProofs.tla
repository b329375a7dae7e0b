------------------------------ MODULE CpuProofs -------------------------------
(***************************************************************************)
(* The CPU in the machine: how it takes interrupts, for every frame        *)
(* length, VBlank length, sequence length and instruction timing that      *)
(* NesAssumption admits, and what its instructions compute, for bytes of   *)
(* every size: arithmetic of one and of two bytes, and that every type     *)
(* computes what the first CPU computes; and for every program and every   *)
(* content of memory, that every opcode, run cycle by cycle, takes the     *)
(* cycles of the first CPU and goes on where it goes on.                   *)
(***************************************************************************)
EXTENDS NesTick, Alu, CpuBus, TLAPS


PpuType == [pos : 0 .. FrameMax - 1, latch : BOOLEAN, complete : BOOLEAN, owed : Nat]
ApuType == [line : BOOLEAN, odd : BOOLEAN]

\* The parts of TypeOK, proved one at a time.
ControlType ==
  pc \in {"boundary", "exec", "service"} /\ instr \in Classes \cup {"none"} /\ left \in 0 .. MaxCycles - 1
FlagType ==
  /\ iflag \in BOOLEAN /\ delay \in BOOLEAN /\ saved \in BOOLEAN
  /\ nmi \in BOOLEAN /\ irq \in BOOLEAN /\ inSeq \in BOOLEAN /\ halted \in BOOLEAN
  /\ odd \in BOOLEAN /\ oam \in BOOLEAN /\ enabled \in BOOLEAN /\ ready \in BOOLEAN
HistType ==
  /\ taken \subseteq {"nmi", "irq"} /\ last \in Classes \cup {"none"}
  /\ iBefore \in BOOLEAN /\ unmasked \in BOOLEAN /\ held \in Nat

(***************************************************************************)
(* The strengthening that makes NmiExactlyOnce inductive.  An NMI edge     *)
(* waits in the PPU's latch only between two calls, when it arose during   *)
(* the last interrupt sequence, and waits in the CPU only inside a call,   *)
(* from at most an instruction ago.  Both are far from the end of VBlank,  *)
(* which would clear the latch, and from the next VBlank, which would      *)
(* raise a second edge.                                                    *)
(***************************************************************************)
LatchInv == ppu.latch => pc = "boundary" /\ ppu.pos < IntCycles

PendingInv ==
  nmi => \/ pc = "exec" /\ 0 < left /\ ppu.pos + left < IntCycles + MaxCycles
         \/ pc = "service" /\ ppu.pos < IntCycles + MaxCycles

OwedInv == ppu.owed = Count(ppu.latch) + Count(nmi)

NmiInv == LatchInv /\ PendingInv /\ OwedInv

Inv == TypeOK /\ NmiInv

-----------------------------------------------------------------------------
(* Lemmas about the operators. *)

\* Every class executes at least one cycle and fits in the longest instruction.
LEMMA ExecCyclesType ==
  ASSUME NEW k \in Classes
  PROVE  ExecCycles(k) \subseteq 1 .. MaxCycles - 1
BY NesAssumption DEF ExecCycles, Classes, Delaying, RegAccess, MaxCycles

LEMMA TypeParts ==
  /\ TypeOK <=> ControlType /\ FlagType /\ HistType /\ ppu \in PpuType /\ apu \in ApuType
  /\ TypeOK' <=> ControlType' /\ FlagType' /\ HistType' /\ ppu' \in PpuType /\ apu' \in ApuType
BY DEF TypeOK, ControlType, FlagType, HistType, PpuType, ApuType

\* What the updates of the PPU record do to its fields.
LEMMA PolledType ==
  ASSUME NEW p \in PpuType
  PROVE  /\ Polled(p) \in PpuType /\ ~Polled(p).latch
         /\ Polled(p).pos = p.pos /\ Polled(p).owed = p.owed
BY DEF PpuType, Polled

LEMMA DeliveredType ==
  ASSUME NEW p \in PpuType, p.owed = 1
  PROVE  /\ Delivered(p) \in PpuType /\ Delivered(p).latch = p.latch
         /\ Delivered(p).pos = p.pos /\ Delivered(p).owed = 0
BY DEF PpuType, Delivered

LEMMA FramePolledType ==
  ASSUME NEW p \in PpuType
  PROVE  /\ FramePolled(p) \in PpuType /\ FramePolled(p).latch = p.latch
         /\ FramePolled(p).pos = p.pos /\ FramePolled(p).owed = p.owed
         /\ ~FramePolled(p).complete
BY DEF PpuType, FramePolled

\* n cycles either stay in the frame or pass one VBlank start, soon enough for the edge
\* to be there at the end.
LEMMA Advances ==
  ASSUME NEW p \in PpuType, NEW n \in Nat, 0 < n, n < VBlankLen,
         enabled \in BOOLEAN, NEW q \in PpuAfter(p, n)
  PROVE  /\ q \in PpuType
         /\ \/ /\ q.pos = p.pos + n /\ q.owed = p.owed /\ q.complete = p.complete
               /\ q.latch = LatchAfter(p.latch, p.pos, p.pos + n)
            \/ /\ FrameMin <= p.pos + n /\ q.pos < n
               /\ q.owed = p.owed + Count(enabled)
               /\ ~p.latch => q.latch = enabled
<1>1. CASE q \in SameFrame(p, n)
  <2>. DEFINE x == p.pos + n
  <2>1. /\ x \in 0 .. FrameMax - 1
        /\ q = [pos |-> x, latch |-> LatchAfter(p.latch, p.pos, x),
                complete |-> p.complete, owed |-> p.owed]
    BY <1>1 DEF SameFrame
  <2>2. LatchAfter(p.latch, p.pos, x) \in BOOLEAN
    BY DEF LatchAfter, PpuType
  <2>3. /\ q.pos = x /\ q.latch = LatchAfter(p.latch, p.pos, x)
        /\ q.owed = p.owed /\ q.complete = p.complete
    BY <2>1
  <2>4. q \in PpuType
    BY <2>1, <2>2 DEF PpuType
  <2>. QED
    BY <2>3, <2>4
<1>2. CASE q \in NextFrame(p, n)
  <2>1. PICK e \in FrameMin .. FrameMax :
          /\ p.pos < e /\ e <= p.pos + n
          /\ q = [pos      |-> p.pos + n - e,
                  latch    |-> LatchAfter(enabled \/ LatchAfter(p.latch, p.pos, e), 0,
                                          p.pos + n - e),
                  complete |-> TRUE,
                  owed     |-> p.owed + Count(enabled)]
    BY <1>2 DEF NextFrame
  <2>2. p.pos \in Nat /\ p.owed \in Nat /\ e \in Nat /\ p.latch \in BOOLEAN
    BY NesAssumption DEF PpuType
  <2>3. q.pos = p.pos + n - e /\ q.pos \in Nat /\ q.pos < n /\ q.pos < FrameMax
    BY <2>1, <2>2, NesAssumption
  <2>4. ~(0 < VBlankLen /\ VBlankLen <= q.pos)
    BY <2>3, NesAssumption
  <2>5. q.latch = (enabled \/ LatchAfter(p.latch, p.pos, e))
    BY <2>1, <2>3, <2>4 DEF LatchAfter
  <2>6. Count(enabled) \in Nat
    BY DEF Count
  <2>7. q \in PpuType
    <3>1. LatchAfter(enabled \/ LatchAfter(p.latch, p.pos, e), 0, p.pos + n - e) \in BOOLEAN
      BY DEF LatchAfter
    <3>2. p.owed + Count(enabled) \in Nat /\ p.pos + n - e \in 0 .. FrameMax - 1
      BY <2>1, <2>2, <2>3, <2>6, NesAssumption
    <3>. QED
      BY <2>1, <3>1, <3>2 DEF PpuType
  <2>8. ~p.latch => q.latch = enabled
    BY <2>5 DEF LatchAfter
  <2>9. q.owed = p.owed + Count(enabled) /\ FrameMin <= p.pos + n
    BY <2>1, <2>2, NesAssumption
  <2>. QED
    BY <2>3, <2>7, <2>8, <2>9
<1>. QED
  BY <1>1, <1>2 DEF PpuAfter

\* With nothing owed, what n cycles leave owed is in the latch.
LEMMA AdvanceFresh ==
  ASSUME NEW p \in PpuType, NEW n \in Nat, 0 < n, n < VBlankLen, enabled \in BOOLEAN,
         ~p.latch, p.owed = 0, NEW q \in PpuAfter(p, n)
  PROVE  /\ q \in PpuType
         /\ q.owed = Count(q.latch)
         /\ q.latch => q.pos < n
BY Advances DEF Count, LatchAfter, PpuType

\* Early in VBlank, n cycles that end inside it keep the edge and raise no other.
LEMMA AdvanceEarly ==
  ASSUME NEW p \in PpuType, NEW n \in Nat, 0 < n, n < VBlankLen, enabled \in BOOLEAN,
         p.pos + n < FrameMin, p.latch => p.pos + n < VBlankLen, NEW q \in PpuAfter(p, n)
  PROVE  q \in PpuType /\ q.pos = p.pos + n /\ q.latch = p.latch /\ q.owed = p.owed
<1>1. q \in PpuType /\ ~(FrameMin <= p.pos + n)
  BY Advances, NesAssumption DEF PpuType
<1>2. q.pos = p.pos + n /\ q.owed = p.owed /\ q.latch = LatchAfter(p.latch, p.pos, p.pos + n)
  BY <1>1, Advances
<1>3. p.latch \in BOOLEAN /\ p.pos \in Nat
  BY DEF PpuType
<1>. QED
  BY <1>1, <1>2, <1>3, NesAssumption DEF LatchAfter

LEMMA ApuAfterType ==
  ASSUME NEW a \in ApuType, NEW n \in Nat, NEW b \in ApuAfter(a, n)
  PROVE  b \in ApuType
<1>1. PICK l \in {a.line, TRUE} : b = [line |-> l, odd |-> Flip(a.odd, n)]
  BY DEF ApuAfter
<1>2. Flip(a.odd, n) \in BOOLEAN /\ l \in BOOLEAN
  BY DEF Flip, ApuType
<1>. QED
  BY <1>1, <1>2 DEF ApuType

\* One cycle of the loop, wherever it is: an edge moves from the latch to the CPU.
LEMMA LoopCycle ==
  ASSUME Inv, pc \in {"boundary", "exec"}, NEW p \in PpuAfter(ppu, 1)
  PROVE  /\ p \in PpuType
         /\ Polled(p) \in PpuType /\ ~Polled(p).latch /\ Polled(p).pos = p.pos
         /\ Polled(p).owed = Count(nmi \/ p.latch)
         /\ p.latch => p.pos <= IntCycles
         /\ nmi => p.pos = ppu.pos + 1 /\ ~p.latch
<1>1. /\ ppu \in PpuType /\ enabled \in BOOLEAN /\ nmi \in BOOLEAN
      /\ 1 < VBlankLen /\ IntCycles \in Nat /\ 1 < IntCycles + VBlankLen
  BY NesAssumption DEF Inv, TypeOK, PpuType
<1>2. p \in PpuType
  BY <1>1, Advances
<1>3. CASE ~nmi /\ ~ppu.latch
  <2>1. ppu.owed = 0
    BY <1>3 DEF Inv, NmiInv, OwedInv, Count
  <2>2. p.owed = Count(p.latch) /\ (p.latch => p.pos < 1)
    BY <1>1, <1>3, <2>1, AdvanceFresh
  <2>. QED
    BY <1>1, <1>2, <1>3, <2>2, PolledType, NesAssumption DEF PpuType, Count
<1>4. CASE nmi
  <2>1. ~ppu.latch /\ ppu.owed = 1
    BY <1>4 DEF Inv, NmiInv, LatchInv, PendingInv, OwedInv, Count
  <2>2. ppu.pos + 1 < FrameMin
    BY <1>1, <1>4, NesAssumption DEF Inv, NmiInv, PendingInv, TypeOK, MaxCycles, PpuType
  <2>3. p.pos = ppu.pos + 1 /\ ~p.latch /\ p.owed = 1
    BY <1>1, <2>1, <2>2, AdvanceEarly
  <2>. QED
    BY <1>1, <1>2, <1>4, <2>3, PolledType DEF Count
<1>5. CASE ~nmi /\ ppu.latch
  <2>1. ppu.pos < IntCycles /\ ppu.owed = 1
    BY <1>5 DEF Inv, NmiInv, LatchInv, OwedInv, Count
  <2>2. ppu.pos + 1 < VBlankLen /\ ppu.pos + 1 < FrameMin
    BY <1>1, <2>1, NesAssumption DEF PpuType, MaxCycles
  <2>3. p.pos = ppu.pos + 1 /\ p.latch /\ p.owed = 1
    BY <1>1, <1>5, <2>1, <2>2, AdvanceEarly
  <2>. QED
    BY <1>1, <1>2, <1>5, <2>1, <2>3, PolledType, NesAssumption DEF PpuType, Count
<1>. QED
  BY <1>1, <1>3, <1>4, <1>5

\* DMA and interrupt sequences are short compared with VBlank.
LEMMA Lengths ==
  /\ DmaCycles \in Nat /\ 0 < DmaCycles /\ DmaCycles <= DmaBase + 1
  /\ IntCycles \in Nat /\ 0 < IntCycles
BY NesAssumption DEF DmaCycles

-----------------------------------------------------------------------------
(* Every step keeps the invariant. *)

LEMMA InitInv == Init => Inv
<1>. SUFFICES ASSUME Init PROVE Inv
  OBVIOUS
<1>1. ppu \in PpuType /\ apu \in ApuType /\ ppu.owed = 0 /\ ~ppu.latch /\ ~nmi
  BY NesAssumption DEF Init, PpuType, ApuType
<1>2. ControlType
  BY DEF Init, ControlType, MaxCycles
<1>3. FlagType /\ HistType
  BY DEF Init, FlagType, HistType
<1>4. TypeOK
  BY <1>1, <1>2, <1>3, TypeParts
<1>. QED
  BY <1>1, <1>4 DEF Inv, NmiInv, LatchInv, PendingInv, OwedInv, Count

LEMMA OamDmaInv == Inv /\ OamDma => Inv'
<1>. SUFFICES ASSUME Inv, OamDma PROVE Inv'
  OBVIOUS
<1>1. /\ ppu \in PpuType /\ apu \in ApuType /\ enabled \in BOOLEAN /\ odd \in BOOLEAN
      /\ pc = "boundary" /\ ~nmi /\ ppu.owed = Count(ppu.latch)
      /\ ppu.latch => ppu.pos < IntCycles
  BY DEF Inv, TypeOK, PpuType, ApuType, NmiInv, LatchInv, PendingInv, OwedInv, OamDma, Count
<1>2. PICK p \in PpuAfter(ppu, DmaCycles), a \in ApuAfter(apu, DmaCycles) :
        IF p.latch
          THEN /\ \E q \in PpuAfter(Delivered(Polled(p)), IntCycles) : ppu' = q
               /\ apu' \in ApuAfter(a, IntCycles)
               /\ odd' = TotalAfter(TotalAfter(odd, DmaCycles), IntCycles)
               /\ iflag' = TRUE /\ nmi' = FALSE /\ inSeq' = TRUE
               /\ taken' = {"nmi"}
          ELSE /\ ppu' = Polled(p) /\ apu' = a
               /\ odd' = TotalAfter(odd, DmaCycles)
               /\ taken' = {}
               /\ UNCHANGED <<iflag, nmi, inSeq>>
  BY DEF OamDma
\* The DMA itself: what is owed is in the latch, and still early in VBlank.
<1>3. p \in PpuType /\ p.owed = Count(p.latch)
      /\ (p.latch => p.pos < IntCycles + DmaBase + 1)
  <2>1. CASE ppu.latch
    <3>1. ppu.pos + DmaCycles < VBlankLen /\ ppu.pos + DmaCycles < FrameMin
          /\ DmaCycles < VBlankLen
      BY <1>1, <2>1, Lengths, NesAssumption DEF PpuType, MaxCycles
    <3>2. p \in PpuType /\ p.pos = ppu.pos + DmaCycles /\ p.latch = ppu.latch
          /\ p.owed = ppu.owed
      BY <1>1, <3>1, Lengths, AdvanceEarly
    <3>3. p.pos < IntCycles + DmaBase + 1
      BY <1>1, <2>1, <3>2, Lengths, NesAssumption DEF PpuType
    <3>. QED
      BY <1>1, <2>1, <3>2, <3>3 DEF Count
  <2>2. CASE ~ppu.latch
    <3>1. ppu.owed = 0 /\ DmaCycles < VBlankLen
      BY <1>1, <2>2, Lengths, NesAssumption DEF Count
    <3>2. p \in PpuType /\ p.owed = Count(p.latch) /\ (p.latch => p.pos < DmaCycles)
      BY <1>1, <2>2, <3>1, Lengths, AdvanceFresh
    <3>. QED
      BY <3>2, Lengths, NesAssumption DEF PpuType
  <2>. QED
    BY <2>1, <2>2
<1>4. a \in ApuType
  BY <1>1, Lengths, ApuAfterType
<1>5. TotalAfter(odd, DmaCycles) \in BOOLEAN
      /\ TotalAfter(TotalAfter(odd, DmaCycles), IntCycles) \in BOOLEAN
  BY DEF TotalAfter, Flip
<1>6. CASE p.latch
  <2>1. PICK q \in PpuAfter(Delivered(Polled(p)), IntCycles) : ppu' = q
    BY <1>2, <1>6
  <2>2. /\ Delivered(Polled(p)) \in PpuType /\ ~Delivered(Polled(p)).latch
        /\ Delivered(Polled(p)).pos = p.pos /\ Delivered(Polled(p)).owed = 0
    BY <1>3, <1>6, PolledType, DeliveredType DEF Count
  <2>3. p.pos + IntCycles < FrameMin /\ IntCycles < VBlankLen
    BY <1>3, <1>6, NesAssumption DEF PpuType, MaxCycles
  <2>4. ppu' \in PpuType /\ ~ppu'.latch /\ ppu'.owed = 0
    BY <1>1, <2>1, <2>2, <2>3, Lengths, AdvanceEarly
  <2>5. apu' \in ApuType
    BY <1>2, <1>4, <1>6, Lengths, ApuAfterType
  <2>6. /\ odd' \in BOOLEAN /\ iflag' \in BOOLEAN /\ inSeq' \in BOOLEAN /\ ~nmi' /\ nmi' \in BOOLEAN
        /\ taken' \subseteq {"nmi", "irq"}
    BY <1>2, <1>5, <1>6
  <2>7. ControlType' /\ FlagType' /\ HistType'
    BY <2>6, TypeParts DEF Inv, ControlType, FlagType, HistType, OamDma
  <2>8. TypeOK'
    BY <2>4, <2>5, <2>7, TypeParts
  <2>. QED
    BY <2>4, <2>6, <2>8 DEF Inv, NmiInv, LatchInv, PendingInv, OwedInv, Count
<1>7. CASE ~p.latch
  <2>1. ppu' \in PpuType /\ ~ppu'.latch /\ ppu'.owed = 0
    BY <1>2, <1>3, <1>7, PolledType DEF Count
  <2>2. apu' \in ApuType /\ odd' \in BOOLEAN /\ taken' = {}
        /\ iflag' = iflag /\ nmi' = nmi /\ inSeq' = inSeq
    BY <1>2, <1>4, <1>5, <1>7
  <2>3. ControlType' /\ HistType'
    BY <2>2, TypeParts DEF Inv, ControlType, HistType, OamDma
  <2>4. FlagType'
    BY <2>2, TypeParts DEF Inv, FlagType, OamDma
  <2>5. TypeOK'
    BY <2>1, <2>2, <2>3, <2>4, TypeParts
  <2>. QED
    BY <1>1, <2>1, <2>2, <2>5 DEF Inv, NmiInv, LatchInv, PendingInv, OwedInv, Count
<1>. QED
  BY <1>6, <1>7

LEMMA FetchInv == ASSUME NEW k \in Classes PROVE Inv /\ Fetch(k) => Inv'
<1>. SUFFICES ASSUME Inv, Fetch(k) PROVE Inv'
  OBVIOUS
<1>1. PICK p \in PpuAfter(ppu, 1), a \in ApuAfter(apu, 1) :
        nmi' = (nmi \/ p.latch) /\ ppu' = Polled(p) /\ apu' = a
  BY DEF Fetch
<1>2. pc = "boundary" /\ ~nmi
  BY DEF Inv, NmiInv, PendingInv, Fetch
<1>3. /\ ppu' \in PpuType /\ ~ppu'.latch /\ ppu'.owed = Count(nmi')
      /\ nmi' => ppu'.pos <= IntCycles
  BY <1>1, <1>2, LoopCycle
<1>4. apu' \in ApuType
  BY <1>1, ApuAfterType DEF Inv, TypeOK, ApuType
<1>5. left' \in 1 .. MaxCycles - 1
  BY ExecCyclesType DEF Fetch
<1>6. nmi' => ppu'.pos + left' < IntCycles + MaxCycles
  BY <1>3, <1>5, NesAssumption DEF PpuType, MaxCycles
<1>7. NmiInv'
  BY <1>3, <1>5, <1>6 DEF NmiInv, LatchInv, PendingInv, OwedInv, Count, Fetch
<1>8. TypeOK'
  <2>1. nmi' \in BOOLEAN
    BY <1>1, <1>2, LoopCycle DEF PpuType
  <2>2. odd' \in BOOLEAN /\ halted' \in BOOLEAN
    BY DEF Fetch
  <2>. QED
    BY <1>3, <1>4, <1>5, <2>1, <2>2, NesAssumption DEF Inv, TypeOK, PpuType, ApuType, Fetch, MaxCycles
<1>. QED
  BY <1>7, <1>8 DEF Inv

LEMMA ExecuteInv == Inv /\ Execute => Inv'
<1>. SUFFICES ASSUME Inv, Execute PROVE Inv'
  OBVIOUS
<1>1. PICK p \in PpuAfter(ppu, 1), a \in ApuAfter(apu, 1) :
        nmi' = (nmi \/ p.latch) /\ ppu' = Polled(p) /\ apu' = a
  BY DEF Execute
<1>2. /\ pc = "exec" /\ pc' = "exec" /\ left \in 2 .. MaxCycles - 1
      /\ left' = left - 1 /\ nmi \in BOOLEAN /\ ppu \in PpuType
      /\ nmi => ppu.pos + left < IntCycles + MaxCycles
  BY DEF Inv, TypeOK, PpuType, NmiInv, PendingInv, Execute, MaxCycles
<1>3. /\ ppu' \in PpuType /\ ~ppu'.latch /\ ppu'.owed = Count(nmi')
      /\ p.latch => ppu'.pos <= IntCycles
      /\ nmi => ppu'.pos = ppu.pos + 1 /\ ~p.latch
      /\ nmi' \in BOOLEAN
  BY <1>1, <1>2, LoopCycle DEF PpuType
<1>4. apu' \in ApuType
  BY <1>1, ApuAfterType DEF Inv, TypeOK, ApuType
<1>5. left' \in 1 .. MaxCycles - 1
  BY <1>2 DEF MaxCycles
<1>6. nmi' => ppu'.pos + left' < IntCycles + MaxCycles
  BY <1>1, <1>2, <1>3, <1>5, NesAssumption DEF PpuType, MaxCycles
<1>7. NmiInv'
  BY <1>2, <1>3, <1>5, <1>6 DEF NmiInv, LatchInv, PendingInv, OwedInv, Count
<1>8. TypeOK'
  BY <1>3, <1>4, <1>5 DEF Inv, TypeOK, PpuType, ApuType, Execute, MaxCycles
<1>. QED
  BY <1>7, <1>8 DEF Inv

LEMMA BrkVectorInv == Inv /\ BrkVector => Inv'
<1>. SUFFICES ASSUME Inv, BrkVector PROVE Inv'
  OBVIOUS
<1>1. PICK p \in PpuAfter(ppu, 1), a \in ApuAfter(apu, 1) :
        /\ apu' = a
        /\ ppu' = IF nmi \/ p.latch THEN Delivered(Polled(p)) ELSE Polled(p)
        /\ irq' = (irq /\ (nmi \/ p.latch \/ iflag))
  BY DEF BrkVector
<1>2. pc = "exec" /\ ~nmi' /\ left' = 1 /\ nmi \in BOOLEAN
  BY DEF Inv, TypeOK, BrkVector, BrkVectorCycle
<1>3. ppu' \in PpuType /\ ~ppu'.latch /\ ppu'.owed = 0
  <2>1. CASE nmi \/ p.latch
    BY <1>1, <1>2, <2>1, LoopCycle, DeliveredType DEF Count
  <2>2. CASE ~(nmi \/ p.latch)
    BY <1>1, <1>2, <2>2, LoopCycle DEF Count
  <2>. QED
    BY <2>1, <2>2
<1>4. apu' \in ApuType
  BY <1>1, ApuAfterType DEF Inv, TypeOK, ApuType
<1>5. irq' \in BOOLEAN
  BY <1>1
<1>6. NmiInv'
  BY <1>2, <1>3 DEF NmiInv, LatchInv, PendingInv, OwedInv, Count
<1>7. TypeOK'
  <2>1. ControlType'
    BY <1>2, TypeParts DEF Inv, ControlType, BrkVector, MaxCycles
  <2>2. FlagType'
    BY <1>3, <1>5, TypeParts DEF Inv, FlagType, BrkVector
  <2>3. HistType'
    BY TypeParts DEF Inv, HistType, BrkVector
  <2>. QED
    BY <1>3, <1>4, <2>1, <2>2, <2>3, TypeParts
<1>. QED
  BY <1>6, <1>7 DEF Inv

LEMMA CompleteInv == Inv /\ Complete => Inv'
<1>. SUFFICES ASSUME Inv, Complete PROVE Inv'
  OBVIOUS
<1>1. PICK p \in PpuAfter(ppu, 1), a \in ApuAfter(apu, 1) :
        /\ nmi' = (nmi \/ p.latch) /\ ppu' = Polled(p)
        /\ apu' \in IF instr = "ack" THEN {a, [a EXCEPT !.line = FALSE]} ELSE {a}
  BY DEF Complete
<1>2. /\ pc = "exec" /\ pc' = "service" /\ left = 1 /\ left' = 0
      /\ nmi \in BOOLEAN /\ ppu \in PpuType
      /\ nmi => ppu.pos + left < IntCycles + MaxCycles
  BY DEF Inv, TypeOK, PpuType, NmiInv, PendingInv, Complete
<1>3. /\ ppu' \in PpuType /\ ~ppu'.latch /\ ppu'.owed = Count(nmi')
      /\ p.latch => ppu'.pos <= IntCycles
      /\ nmi => ppu'.pos = ppu.pos + 1 /\ ~p.latch
      /\ nmi' \in BOOLEAN
  BY <1>1, <1>2, LoopCycle DEF PpuType
<1>4. apu' \in ApuType
  <2>1. a \in ApuType
    BY ApuAfterType DEF Inv, TypeOK, ApuType
  <2>. QED
    BY <1>1, <2>1 DEF ApuType
<1>5. nmi' => ppu'.pos < IntCycles + MaxCycles
  BY <1>1, <1>2, <1>3, NesAssumption DEF PpuType, MaxCycles
<1>6. NmiInv'
  BY <1>2, <1>3, <1>5 DEF NmiInv, LatchInv, PendingInv, OwedInv, Count
<1>7. /\ iflag' \in BOOLEAN /\ delay' \in BOOLEAN /\ saved' \in BOOLEAN /\ oam' \in BOOLEAN
      /\ enabled' \in BOOLEAN /\ odd' \in BOOLEAN /\ unmasked' \in BOOLEAN
  <2>1. FlagType /\ HistType
    BY TypeParts DEF Inv
  <2>2. iflag' \in BOOLEAN
    BY <2>1 DEF Complete, IAfter, FlagType
  <2>3. delay' \in BOOLEAN /\ saved' \in BOOLEAN /\ odd' \in BOOLEAN
    BY <2>1 DEF Complete, DelayAfter, FlagType
  <2>4. oam' \in BOOLEAN /\ enabled' \in BOOLEAN /\ unmasked' \in BOOLEAN
    BY <2>1 DEF Complete, FlagType, HistType
  <2>. QED
    BY <2>2, <2>3, <2>4
<1>8. TypeOK'
  <2>1. ControlType'
    BY <1>2, TypeParts DEF Inv, ControlType, Complete, MaxCycles
  <2>2. FlagType'
    BY <1>3, <1>7, TypeParts DEF Inv, FlagType, Complete
  <2>3. HistType'
    BY <1>7, TypeParts DEF Inv, HistType, ControlType, FlagType, Complete
  <2>. QED
    BY <1>3, <1>4, <2>1, <2>2, <2>3, TypeParts
<1>. QED
  BY <1>6, <1>8 DEF Inv

LEMMA JammedInv == Inv /\ Jammed => Inv'
<1>. SUFFICES ASSUME Inv, Jammed PROVE Inv'
  OBVIOUS
<1>1. PICK p \in PpuAfter(ppu, 1), a \in ApuAfter(apu, 1) :
        nmi' = (nmi \/ p.latch) /\ ppu' = Polled(p) /\ apu' = a
  BY DEF Jammed
<1>2. /\ pc \in {"boundary", "exec"} /\ pc' = "service"
      /\ nmi \in BOOLEAN /\ ppu \in PpuType /\ left \in Nat
      /\ nmi => 0 < left /\ ppu.pos + left < IntCycles + MaxCycles
  BY DEF Inv, TypeOK, PpuType, NmiInv, PendingInv, Jammed
<1>3. /\ ppu' \in PpuType /\ ~ppu'.latch /\ ppu'.owed = Count(nmi')
      /\ p.latch => ppu'.pos <= IntCycles
      /\ nmi => ppu'.pos = ppu.pos + 1 /\ ~p.latch
      /\ nmi' \in BOOLEAN
  BY <1>1, <1>2, LoopCycle DEF PpuType
<1>4. apu' \in ApuType
  BY <1>1, ApuAfterType DEF Inv, TypeOK, ApuType
<1>5. nmi' => ppu'.pos < IntCycles + MaxCycles
  BY <1>1, <1>2, <1>3, NesAssumption DEF PpuType, MaxCycles
<1>6. NmiInv'
  BY <1>2, <1>3, <1>5 DEF NmiInv, LatchInv, PendingInv, OwedInv, Count
<1>7. TypeOK'
  BY <1>2, <1>3, <1>4 DEF Inv, TypeOK, PpuType, ApuType, Jammed
<1>. QED
  BY <1>6, <1>7 DEF Inv

\* An interrupt sequence that starts with nothing owed, or early in VBlank.
LEMMA SequenceCycles ==
  ASSUME NEW p \in PpuType, enabled \in BOOLEAN, ~p.latch, p.owed = 0,
         NEW q \in PpuAfter(p, IntCycles)
  PROVE  /\ q \in PpuType /\ q.owed = Count(q.latch)
         /\ q.latch => q.pos < IntCycles
         /\ p.pos + IntCycles < FrameMin => ~q.latch /\ q.owed = 0 /\ q.pos = p.pos + IntCycles
<1>1. IntCycles < VBlankLen
  BY NesAssumption
<1>2. q \in PpuType /\ q.owed = Count(q.latch) /\ (q.latch => q.pos < IntCycles)
  BY <1>1, Lengths, AdvanceFresh
<1>3. CASE p.pos + IntCycles < FrameMin
  BY <1>1, <1>2, <1>3, Lengths, AdvanceEarly
<1>. QED
  BY <1>2, <1>3

LEMMA ServiceInv == Inv /\ Service => Inv'
<1>. SUFFICES ASSUME Inv, Service PROVE Inv'
  OBVIOUS
<1>. DEFINE Take(a) == a.line /\ ~PollMask
<1>1. PICK p \in IF nmi THEN PpuAfter(Delivered(ppu), IntCycles) ELSE {ppu},
           a \in IF nmi THEN ApuAfter(apu, IntCycles) ELSE {apu} :
           \E q \in IF Take(a) THEN PpuAfter(p, IntCycles) ELSE {p} :
             /\ ppu' = FramePolled(q)
             /\ apu' \in IF Take(a) THEN ApuAfter(a, IntCycles) ELSE {a}
             /\ ready' = (ready \/ q.complete)
             /\ irq' = (a.line /\ ~Take(a))
             /\ iflag' = (iflag \/ nmi \/ Take(a))
             /\ inSeq' = (inSeq \/ nmi \/ Take(a))
             /\ odd' = LET o == IF nmi THEN TotalAfter(odd, IntCycles) ELSE odd
                       IN  IF Take(a) THEN TotalAfter(o, IntCycles) ELSE o
             /\ taken' = {i \in {"nmi", "irq"} : IF i = "nmi" THEN nmi ELSE Take(a)}
             /\ held' = IF a.line /\ ~Take(a) /\ ~iflag /\ ~nmi /\ ~halted THEN held + 1 ELSE 0
  BY DEF Service
<1>2. PICK q \in IF Take(a) THEN PpuAfter(p, IntCycles) ELSE {p} :
             /\ ppu' = FramePolled(q)
             /\ apu' \in IF Take(a) THEN ApuAfter(a, IntCycles) ELSE {a}
             /\ ready' = (ready \/ q.complete)
             /\ irq' = (a.line /\ ~Take(a))
             /\ iflag' = (iflag \/ nmi \/ Take(a))
             /\ inSeq' = (inSeq \/ nmi \/ Take(a))
             /\ odd' = LET o == IF nmi THEN TotalAfter(odd, IntCycles) ELSE odd
                       IN  IF Take(a) THEN TotalAfter(o, IntCycles) ELSE o
             /\ taken' = {i \in {"nmi", "irq"} : IF i = "nmi" THEN nmi ELSE Take(a)}
             /\ held' = IF a.line /\ ~Take(a) /\ ~iflag /\ ~nmi /\ ~halted THEN held + 1 ELSE 0
  BY <1>1
<1>3. /\ ppu \in PpuType /\ apu \in ApuType /\ enabled \in BOOLEAN /\ nmi \in BOOLEAN
      /\ ~ppu.latch /\ ppu.owed = Count(nmi)
      /\ nmi => ppu.pos < IntCycles + MaxCycles
  BY DEF Inv, TypeOK, PpuType, ApuType, NmiInv, LatchInv, PendingInv, OwedInv, Count, Service
\* The NMI sequence, if any: the edge is delivered and no other one arises.
<1>4. p \in PpuType /\ ~p.latch /\ p.owed = 0
  <2>1. CASE nmi
    <3>1. /\ Delivered(ppu) \in PpuType /\ ~Delivered(ppu).latch
          /\ Delivered(ppu).pos = ppu.pos /\ Delivered(ppu).owed = 0
      BY <1>3, <2>1, DeliveredType DEF Count
    <3>2. Delivered(ppu).pos + IntCycles < FrameMin
      BY <1>3, <2>1, <3>1, NesAssumption DEF PpuType, MaxCycles
    <3>3. p \in PpuAfter(Delivered(ppu), IntCycles)
      BY <2>1
    <3>. QED
      BY <1>3, <3>1, <3>2, <3>3, SequenceCycles
  <2>2. CASE ~nmi
    BY <1>3, <2>2 DEF Count
  <2>. QED
    BY <2>1, <2>2
<1>5. q \in PpuType /\ q.owed = Count(q.latch) /\ (q.latch => q.pos < IntCycles)
  <2>1. CASE Take(a)
    <3>1. q \in PpuAfter(p, IntCycles)
      BY <2>1
    <3>. QED
      BY <1>3, <1>4, <3>1, SequenceCycles
  <2>2. CASE ~Take(a)
    BY <1>4, <2>2 DEF Count
  <2>. QED
    BY <2>1, <2>2
<1>6. ppu' \in PpuType /\ ppu'.owed = Count(ppu'.latch) /\ (ppu'.latch => ppu'.pos < IntCycles)
  BY <1>2, <1>5, FramePolledType
<1>7. a \in ApuType /\ apu' \in ApuType
  <2>1. a \in ApuType
    BY <1>3, Lengths, ApuAfterType
  <2>. QED
    BY <1>2, <2>1, Lengths, ApuAfterType
<1>8. pc' = "boundary" /\ ~nmi' /\ nmi' \in BOOLEAN
  BY DEF Service
<1>9. NmiInv'
  BY <1>6, <1>8 DEF NmiInv, LatchInv, PendingInv, OwedInv, Count
<1>10. TypeOK'
  <2>1. /\ ready' \in BOOLEAN /\ irq' \in BOOLEAN /\ iflag' \in BOOLEAN /\ inSeq' \in BOOLEAN
    <3>1. /\ ready \in BOOLEAN /\ iflag \in BOOLEAN /\ inSeq \in BOOLEAN
      BY DEF Inv, TypeOK
    <3>. HIDE DEF Take
    <3>. QED
      BY <1>2, <3>1
  <2>2. odd' \in BOOLEAN
    BY <1>2 DEF Inv, TypeOK, TotalAfter, Flip
  <2>3. taken' \subseteq {"nmi", "irq"} /\ held' \in Nat
    BY <1>2 DEF Inv, TypeOK
  <2>. QED
    BY <1>6, <1>7, <1>8, <2>1, <2>2, <2>3 DEF Inv, TypeOK, PpuType, ApuType, Service
<1>. QED
  BY <1>9, <1>10 DEF Inv

LEMMA ResetInv == Inv /\ Reset => Inv'
<1>. SUFFICES ASSUME Inv, Reset PROVE Inv'
  OBVIOUS
<1>1. /\ ppu' = [pos |-> ResetPos, latch |-> FALSE, complete |-> FALSE, owed |-> 0]
      /\ apu' = [line |-> FALSE, odd |-> FALSE] /\ ~nmi' /\ nmi' \in BOOLEAN
  BY DEF Reset
<1>2. ppu' \in PpuType /\ apu' \in ApuType /\ ppu'.owed = 0 /\ ~ppu'.latch
  BY <1>1, NesAssumption DEF PpuType, ApuType
<1>3. ControlType'
  BY TypeParts DEF Reset, Inv, ControlType, MaxCycles
<1>4. FlagType' /\ HistType'
  BY TypeParts DEF Reset, Inv, FlagType, HistType
<1>5. TypeOK'
  BY <1>2, <1>3, <1>4, TypeParts
<1>. QED
  BY <1>1, <1>2, <1>5 DEF Inv, NmiInv, LatchInv, PendingInv, OwedInv, Count

LEMMA NextInv == Inv /\ [Next]_vars => Inv'
<1>. SUFFICES ASSUME Inv, [Next]_vars PROVE Inv'
  OBVIOUS
<1>1. CASE OamDma
  BY <1>1, OamDmaInv
<1>2. CASE \E k \in Classes : Fetch(k)
  BY <1>2, FetchInv
<1>3. CASE Execute
  BY <1>3, ExecuteInv
<1>4. CASE BrkVector
  BY <1>4, BrkVectorInv
<1>5. CASE Complete
  BY <1>5, CompleteInv
<1>6. CASE Jammed
  BY <1>6, JammedInv
<1>7. CASE Service
  BY <1>7, ServiceInv
<1>8. CASE Reset
  BY <1>8, ResetInv
<1>9. CASE UNCHANGED vars
  BY <1>9 DEF Inv, TypeOK, NmiInv, LatchInv, PendingInv, OwedInv, Count, vars, cpuVars, histVars
<1>. QED
  BY <1>1, <1>2, <1>3, <1>4, <1>5, <1>6, <1>7, <1>8, <1>9 DEF Next, Step

\* The invariant holds in every state of every behaviour of the machine.
THEOREM Invariance == Spec => []Inv
<1>1. Init => Inv
  BY InitInv
<1>2. Inv /\ [Next]_vars => Inv'
  BY NextInv
<1>. QED
  BY <1>1, <1>2, PTL DEF Spec

\* The variables of the system tick keep their types: no position runs past the frame and
\* no NMI is delivered that was never owed.
THEOREM TypeCorrectness == Spec => []TypeOK
<1>1. Inv => TypeOK
  BY DEF Inv
<1>. QED
  BY <1>1, Invariance, PTL

\* Every VBlank edge of run_cpu_tick is delivered exactly once, whichever of the four ways
\* to the handler it takes.
THEOREM NmiDelivery == Spec => []NmiExactlyOnce
<1>1. Inv => NmiExactlyOnce
  BY DEF Inv, TypeOK, NmiInv, LatchInv, PendingInv, OwedInv, NmiExactlyOnce, Count
<1>. QED
  BY <1>1, Invariance, PTL

-----------------------------------------------------------------------------
(* The IRQ mask.                                                           *)

(***************************************************************************)
(* What the delay of CLI, SEI and PLP remembers when the IRQ is polled:    *)
(* the I flag from before the instruction that completed last, if it was   *)
(* one of these.  ResetMasksIrq needs that no instruction since the reset  *)
(* has shown the delay a clear I flag; IrqLatency that an IRQ held back by *)
(* the delay finds I still clear, and no delay that hides it, the next     *)
(* time.                                                                   *)
(***************************************************************************)
MaskInv ==
  /\ ~unmasked => iflag
  /\ pc = "service" /\ ~halted =>
       /\ delay <=> last \in Delaying
       /\ delay => saved = iBefore
       /\ delay /\ ~unmasked => saved

LatencyInv ==
  /\ pc = "exec" => ~oam
  /\ pc = "service" /\ oam /\ ~halted => ~delay
  /\ held <= 1
  /\ held > 0 => /\ pc = "boundary" => ~iflag /\ ~oam
                 /\ pc = "exec" => ~iflag \/ instr = "brk"
                 /\ pc = "service" /\ ~halted /\ ~iflag /\ delay => ~saved

IrqInv == ResetMasksIrq /\ MaskInv /\ LatencyInv

\* What Service does to the CPU, whatever the cycles of its sequences do to the rest.
LEMMA ServiceFlags ==
  ASSUME TypeOK, Service
  PROVE  \E line \in BOOLEAN, take \in BOOLEAN :
           /\ take <=> line /\ ~PollMask
           /\ iflag' <=> iflag \/ nmi \/ take
           /\ "irq" \in taken' <=> take
           /\ held' = IF line /\ ~take /\ ~iflag /\ ~nmi /\ ~halted THEN held + 1 ELSE 0
<1>1. apu \in ApuType /\ iflag \in BOOLEAN /\ nmi \in BOOLEAN
  BY TypeParts DEF FlagType
<1>2. PICK a \in IF nmi THEN ApuAfter(apu, IntCycles) ELSE {apu} :
        LET take == a.line /\ ~PollMask
        IN  /\ iflag' = (iflag \/ nmi \/ take)
            /\ taken' = {i \in {"nmi", "irq"} : IF i = "nmi" THEN nmi ELSE take}
            /\ held' = IF a.line /\ ~take /\ ~iflag /\ ~nmi /\ ~halted THEN held + 1 ELSE 0
  BY DEF Service
<1>3. a.line \in BOOLEAN
  BY <1>1, Lengths, ApuAfterType DEF ApuType
<1>. WITNESS a.line \in BOOLEAN
<1>4. (a.line /\ ~PollMask) \in BOOLEAN
  OBVIOUS
<1>. WITNESS (a.line /\ ~PollMask) \in BOOLEAN
<1>. QED
  BY <1>1, <1>2, <1>3

LEMMA IrqInvNext == TypeOK /\ IrqInv /\ [Next]_vars => IrqInv'
<1>. SUFFICES ASSUME TypeOK, IrqInv, [Next]_vars PROVE IrqInv'
  OBVIOUS
<1>. USE DEF IrqInv, ResetMasksIrq, MaskInv, LatencyInv
<1>1. FlagType /\ HistType /\ ControlType
  BY TypeParts
<1>2. CASE OamDma
  <2>1. taken' \in {{}, {"nmi"}} /\ (iflag => iflag')
    BY <1>1, <1>2 DEF OamDma
  <2>. QED
    BY <1>1, <1>2, <2>1 DEF OamDma, HistType
<1>3. CASE \E k \in Classes : Fetch(k)
  BY <1>1, <1>3 DEF Fetch, HistType
<1>4. CASE Execute
  BY <1>1, <1>4 DEF Execute, HistType
<1>5. CASE BrkVector
  BY <1>1, <1>5 DEF BrkVector, HistType
<1>6. CASE Complete
  <2>1. taken' = {} /\ pc' = "service" /\ held' = held /\ (delay' <=> instr \in Delaying)
        /\ last' = instr /\ iBefore' = iflag /\ (unmasked' <=> unmasked \/ ~iflag')
        /\ (instr \in Delaying => saved' = iflag) /\ (oam' <=> oam \/ instr = "dma")
        /\ pc = "exec"
    BY <1>1, <1>6 DEF Complete, DelayAfter, FlagType, HistType
  <2>2. instr \in Delaying => instr # "dma" /\ instr # "brk"
    BY DEF Delaying
  <2>3. ~unmasked' => iflag'
    BY <2>1
  <2>4. delay' => saved' = iBefore'
    BY <2>1
  <2>5. delay' /\ ~unmasked' => saved'
    BY <2>1
  <2>6. held' <= 1 /\ (oam' => ~delay') /\ (held' > 0 /\ delay' => ~saved')
    BY <1>1, <2>1, <2>2 DEF HistType
  <2>. QED
    BY <2>1, <2>3, <2>4, <2>5, <2>6
<1>7. CASE Jammed
  BY <1>1, <1>7 DEF Jammed, HistType
<1>8. CASE Service
  <2>1. PICK line \in BOOLEAN, take \in BOOLEAN :
           /\ take <=> line /\ ~PollMask
           /\ iflag' <=> iflag \/ nmi \/ take
           /\ "irq" \in taken' <=> take
           /\ held' = IF line /\ ~take /\ ~iflag /\ ~nmi /\ ~halted THEN held + 1 ELSE 0
    BY <1>8, ServiceFlags
  <2>2. /\ pc = "service" /\ pc' = "boundary" /\ halted' = halted /\ unmasked' = unmasked
        /\ oam' = oam /\ delay' = delay
    BY <1>8 DEF Service
  <2>3. take /\ ~halted => unmasked
    BY <1>1, <2>1, <2>2 DEF PollMask, MaskSeen
  <2>4. line /\ ~take /\ ~iflag /\ ~nmi => delay /\ saved
    BY <1>1, <2>1 DEF PollMask, MaskSeen
  <2>5. held' <= 1 /\ (held' > 0 => ~iflag' /\ ~oam')
    BY <1>1, <2>1, <2>2, <2>4 DEF HistType
  <2>. QED
    BY <2>1, <2>2, <2>3, <2>5
<1>9. CASE Reset
  BY <1>9 DEF Reset
<1>10. CASE UNCHANGED vars
  BY <1>10 DEF vars, cpuVars, histVars
<1>. QED
  BY <1>2, <1>3, <1>4, <1>5, <1>6, <1>7, <1>8, <1>9, <1>10 DEF Next, Step

LEMMA IrqInvariance == Spec => []IrqInv
<1>1. Init => IrqInv
  BY DEF Init, IrqInv, ResetMasksIrq, MaskInv, LatencyInv
<1>. QED
  BY <1>1, IrqInvNext, TypeCorrectness, PTL DEF Spec

\* A reset masks the IRQ until the program unmasks it, although the delay flag survives it.
THEOREM ResetMasking == Spec => []ResetMasksIrq
<1>1. IrqInv => ResetMasksIrq
  BY DEF IrqInv
<1>. QED
  BY <1>1, IrqInvariance, PTL

\* However CLI, SEI, PLP, BRK, NMIs and DMAs follow one another, an IRQ that finds I clear
\* is serviced at this instruction boundary or at the next one.
THEOREM BoundedIrqLatency == Spec => []IrqLatency
<1>1. IrqInv => IrqLatency
  BY DEF IrqInv, LatencyInv, IrqLatency
<1>. QED
  BY <1>1, IrqInvariance, PTL

\* No IRQ is serviced by a running CPU that the I flag it has to look at masks.
THEOREM IrqMasking == Spec => IrqOnlyUnmasked
<1>. DEFINE Masked ==
       Service /\ ~halted /\ "irq" \in taken' =>
         IF last \in Delaying THEN ~iBefore ELSE ~iflag /\ ~nmi
<1>1. TypeOK /\ IrqInv => Masked
  <2>. SUFFICES ASSUME TypeOK, IrqInv, Service, ~halted, "irq" \in taken'
                PROVE  IF last \in Delaying THEN ~iBefore ELSE ~iflag /\ ~nmi
    OBVIOUS
  <2>1. ~PollMask
    BY ServiceFlags
  <2>2. /\ delay <=> last \in Delaying
        /\ delay => saved = iBefore
    BY DEF IrqInv, MaskInv, Service
  <2>. QED
    BY <2>1, <2>2, TypeParts DEF PollMask, MaskSeen, FlagType, HistType
<1>. HIDE DEF Masked
<1>2. Spec => [][Masked]_vars
  BY <1>1, TypeCorrectness, IrqInvariance, PTL DEF Spec
<1>. QED
  BY <1>2 DEF Masked, IrqOnlyUnmasked

-----------------------------------------------------------------------------
(* The cycle counters.                                                     *)

\* Counting the same number of cycles on two clocks of opposite parity.
LEMMA FlipApart ==
  ASSUME NEW x \in BOOLEAN, NEW y \in BOOLEAN, NEW n \in Nat
  PROVE  /\ Flip(x, n) \in BOOLEAN
         /\ x # y => Flip(x, n) # Flip(y, n)
BY DEF Flip

\* n cycles of the APU flip its parity n times.
LEMMA ApuParity ==
  ASSUME NEW a \in ApuType, NEW n \in Nat, NEW b \in ApuAfter(a, n)
  PROVE  b.odd = Flip(a.odd, n)
BY DEF ApuAfter

LEMMA FlipOne == ASSUME NEW x \in BOOLEAN PROVE Flip(x, 1) = ~x
<1>1. 1 % 2 = 1
  OBVIOUS
<1>. QED
  BY <1>1 DEF Flip

\* One cycle on each side keeps the two apart.
LEMMA OneCycleApart ==
  ASSUME TypeOK, CyclesInLockstep, NEW a \in ApuAfter(apu, 1)
  PROVE  ~halted => (~odd) # a.odd
<1>1. odd \in BOOLEAN /\ apu.odd \in BOOLEAN /\ apu \in ApuType
  BY TypeParts DEF FlagType, ApuType
<1>2. a.odd = Flip(apu.odd, 1) /\ Flip(odd, 1) = ~odd
  BY <1>1, ApuParity, FlipOne
<1>. QED
  BY <1>1, <1>2, FlipApart DEF CyclesInLockstep

LEMMA LockstepNext == TypeOK /\ CyclesInLockstep /\ [Next]_vars => CyclesInLockstep'
<1>. SUFFICES ASSUME TypeOK, CyclesInLockstep, [Next]_vars PROVE CyclesInLockstep'
  OBVIOUS
<1>1. /\ odd \in BOOLEAN /\ apu \in ApuType /\ apu.odd \in BOOLEAN
      /\ ~halted => odd # apu.odd
  BY TypeParts DEF FlagType, ApuType, CyclesInLockstep
<1>2. CASE OamDma
  <2>1. PICK a \in ApuAfter(apu, DmaCycles) :
          \/ apu' = a /\ odd' = TotalAfter(odd, DmaCycles)
          \/ /\ apu' \in ApuAfter(a, IntCycles)
             /\ odd' = TotalAfter(TotalAfter(odd, DmaCycles), IntCycles)
    BY <1>2 DEF OamDma
  <2>2. a \in ApuType /\ a.odd \in BOOLEAN /\ a.odd = Flip(apu.odd, DmaCycles)
    BY <1>1, Lengths, ApuAfterType, ApuParity DEF ApuType
  <2>3. Flip(odd, DmaCycles) \in BOOLEAN /\ (~halted => Flip(odd, DmaCycles) # a.odd)
    <3>1. ~halted => Flip(odd, DmaCycles) # Flip(apu.odd, DmaCycles)
      BY <1>1, Lengths, FlipApart
    <3>. QED
      BY <1>1, <2>2, <3>1, Lengths, FlipApart
  <2>4. apu' \in ApuAfter(a, IntCycles) => apu'.odd = Flip(a.odd, IntCycles)
    BY <2>2, Lengths, ApuParity
  <2>5. ~halted => Flip(Flip(odd, DmaCycles), IntCycles) # Flip(a.odd, IntCycles)
    BY <2>2, <2>3, Lengths, FlipApart
  <2>6. halted' = halted
    BY <1>2 DEF OamDma
  <2>. QED
    BY <2>1, <2>3, <2>4, <2>5, <2>6 DEF TotalAfter, CyclesInLockstep
<1>3. CASE \E k \in Classes : Fetch(k)
  <2>1. PICK a \in ApuAfter(apu, 1) : apu' = a /\ odd' = ~odd /\ ~halted
    BY <1>3 DEF Fetch
  <2>. QED
    BY <2>1, OneCycleApart DEF CyclesInLockstep
<1>4. CASE Execute
  <2>1. PICK a \in ApuAfter(apu, 1) : apu' = a /\ odd' = ~odd /\ ~halted
    BY <1>4 DEF Execute
  <2>. QED
    BY <2>1, OneCycleApart DEF CyclesInLockstep
<1>5. CASE BrkVector
  <2>1. PICK a \in ApuAfter(apu, 1) : apu' = a /\ odd' = ~odd /\ ~halted
    BY <1>5 DEF BrkVector
  <2>. QED
    BY <2>1, OneCycleApart DEF CyclesInLockstep
<1>6. CASE Complete
  <2>1. PICK a \in ApuAfter(apu, 1) :
          /\ apu' \in IF instr = "ack" THEN {a, [a EXCEPT !.line = FALSE]} ELSE {a}
          /\ odd' = ~odd /\ ~halted
    BY <1>6 DEF Complete
  <2>2. a \in ApuType
    BY <1>1, ApuAfterType
  <2>3. apu'.odd = a.odd
    BY <2>1, <2>2 DEF ApuType
  <2>. QED
    BY <2>1, <2>3, OneCycleApart DEF CyclesInLockstep
<1>7. CASE Jammed
  BY <1>7 DEF Jammed, CyclesInLockstep
<1>8. CASE Service
  <2>. DEFINE o == IF nmi THEN TotalAfter(odd, IntCycles) ELSE odd
  <2>1. PICK a \in IF nmi THEN ApuAfter(apu, IntCycles) ELSE {apu} :
          \/ apu' \in ApuAfter(a, IntCycles) /\ odd' = TotalAfter(o, IntCycles)
          \/ apu' = a /\ odd' = o
    BY <1>8 DEF Service
  <2>2. a \in ApuType /\ a.odd \in BOOLEAN /\ o \in BOOLEAN /\ (~halted => o # a.odd)
    <3>1. CASE nmi
      <4>1. a \in ApuType /\ a.odd = Flip(apu.odd, IntCycles) /\ a.odd \in BOOLEAN
        BY <1>1, <2>1, <3>1, Lengths, ApuAfterType, ApuParity DEF ApuType
      <4>2. ~halted => Flip(odd, IntCycles) # Flip(apu.odd, IntCycles)
        BY <1>1, Lengths, FlipApart
      <4>3. o = Flip(odd, IntCycles) /\ o \in BOOLEAN
        BY <1>1, <3>1, Lengths, FlipApart DEF TotalAfter
      <4>. QED
        BY <4>1, <4>2, <4>3
    <3>2. CASE ~nmi
      <4>1. a = apu /\ o = odd
        BY <2>1, <3>2
      <4>. QED
        BY <1>1, <4>1
    <3>. QED
      BY <3>1, <3>2
  <2>. HIDE DEF o
  <2>3. apu' \in ApuAfter(a, IntCycles) => apu'.odd = Flip(a.odd, IntCycles)
    BY <2>2, Lengths, ApuParity
  <2>4. ~halted => Flip(o, IntCycles) # Flip(a.odd, IntCycles)
    BY <2>2, Lengths, FlipApart
  <2>5. halted' = halted
    BY <1>8 DEF Service
  <2>. QED
    BY <2>1, <2>2, <2>3, <2>4, <2>5 DEF TotalAfter, CyclesInLockstep
<1>9. CASE Reset
  BY <1>9 DEF Reset, CyclesInLockstep
<1>10. CASE UNCHANGED vars
  BY <1>10 DEF vars, cpuVars, CyclesInLockstep
<1>. QED
  BY <1>2, <1>3, <1>4, <1>5, <1>6, <1>7, <1>8, <1>9, <1>10 DEF Next, Step

\* The CPU's cycle counter and the APU's never drift apart while the CPU runs: fetches,
\* execution, DMAs and interrupt sequences spend their cycles on both.
THEOREM Lockstep == Spec => []CyclesInLockstep
<1>1. Init => CyclesInLockstep
  BY DEF Init, CyclesInLockstep
<1>. QED
  BY <1>1, LockstepNext, TypeCorrectness, PTL DEF Spec

\* An OAM DMA ends on the same cycle parity whatever the parity it starts on; the odd
\* length of an NMI sequence after it is the only thing that shifts it.
THEOREM DmaAlignment == Spec => DmaEndsAligned
<1>. DEFINE Aligned == OamDma => odd' # ("nmi" \in taken')
<1>1. TypeOK => Aligned
  <2>. SUFFICES ASSUME TypeOK, OamDma PROVE odd' # ("nmi" \in taken')
    OBVIOUS
  <2>1. odd \in BOOLEAN
    BY TypeParts DEF FlagType
  <2>2. /\ DmaBase % 2 = 1 /\ (DmaBase + 1) % 2 = 0 /\ IntCycles % 2 = 1
    BY NesAssumption
  <2>3. Flip(odd, DmaCycles) = TRUE
    <3>1. CASE odd
      <4>1. odd = TRUE /\ DmaCycles = DmaBase + 1
        BY <2>1, <3>1 DEF DmaCycles
      <4>2. ~(DmaCycles % 2 = 1)
        BY <2>2, <4>1
      <4>. QED
        BY <4>1, <4>2 DEF Flip
    <3>2. CASE ~odd
      BY <2>1, <2>2, <3>2 DEF DmaCycles, Flip
    <3>. QED
      BY <3>1, <3>2
  <2>4. Flip(TRUE, IntCycles) = FALSE
    BY <2>2 DEF Flip
  <2>5. \/ odd' = TotalAfter(odd, DmaCycles) /\ taken' = {}
        \/ odd' = TotalAfter(TotalAfter(odd, DmaCycles), IntCycles) /\ taken' = {"nmi"}
    BY DEF OamDma
  <2>. QED
    BY <2>3, <2>4, <2>5 DEF TotalAfter
<1>. HIDE DEF Aligned
<1>2. Spec => [][Aligned]_vars
  BY <1>1, TypeCorrectness, PTL DEF Spec
<1>. QED
  BY <1>2 DEF Aligned, DmaEndsAligned

-----------------------------------------------------------------------------
(* What the instructions compute. *)

Machines == [a : Byte, x : Byte, y : Byte, m : Byte,
          c : Flag, z : BOOLEAN, n : BOOLEAN, v : BOOLEAN]

LEMMA SizeFacts == B \in Nat /\ B >= 4 /\ Half \in Nat /\ 2 * Half = B
BY SizeAssumption DEF Half

\* Reducing a sum of two bytes and a carry takes B off at most once.
LEMMA Wraps ==
  ASSUME NEW k \in Int, 0 <= k, k < 2 * B
  PROVE  k % B = IF k < B THEN k ELSE k - B
BY SizeFacts, Z3

\* ADC: nine bits of sum, the ninth in the carry.
THEOREM ByteSum ==
  ASSUME NEW s \in Machines
  PROVE  /\ Adc(s).a \in Byte
         /\ Adc(s).c \in Flag
         /\ Adc(s).a + B * Adc(s).c = s.a + s.m + s.c
<1> DEFINE sum == s.a + s.m + s.c
<1>1. s.a \in Byte /\ s.m \in Byte /\ s.c \in Flag BY DEF Machines
<1>2. sum \in Int /\ 0 <= sum /\ sum < 2 * B BY <1>1, SizeFacts DEF Byte, Flag
<1>3. sum % B = IF sum < B THEN sum ELSE sum - B BY <1>2, Wraps
<1>4. Adc(s).a = sum % B /\ Adc(s).c = Set(sum > B - 1) BY DEF Adc, SetNZ, Machines
<1> HIDE DEF sum
<1>5. CASE sum < B
  <2>1. Adc(s).a = sum /\ Adc(s).c = 0 BY <1>2, <1>3, <1>4, <1>5, SizeFacts DEF Set
  <2> QED BY <2>1, <1>2, <1>5, SizeFacts DEF Byte, Flag, sum
<1>6. CASE sum >= B
  <2>1. Adc(s).a = sum - B /\ Adc(s).c = 1 BY <1>2, <1>3, <1>4, <1>6, SizeFacts DEF Set
  <2> QED BY <2>1, <1>2, <1>6, SizeFacts DEF Byte, Flag, sum
<1> QED BY <1>2, <1>5, <1>6, SizeFacts

\* SBC is ADC of the complement: the carry says that nothing was borrowed.
THEOREM ByteDifference ==
  ASSUME NEW s \in Machines
  PROVE  /\ Sbc(s).a \in Byte
         /\ Sbc(s).c \in Flag
         /\ Sbc(s).a = s.a - s.m - (1 - s.c) + B * (1 - Sbc(s).c)
<1> DEFINE sum == s.a + BitNot(s.m) + s.c
<1>1. s.a \in Byte /\ s.m \in Byte /\ s.c \in Flag BY DEF Machines
<1>2. sum \in Int /\ 0 <= sum /\ sum < 2 * B BY <1>1, SizeFacts DEF Byte, Flag, BitNot
<1>3. sum % B = IF sum < B THEN sum ELSE sum - B BY <1>2, Wraps
<1>4. Sbc(s).a = sum % B /\ Sbc(s).c = Set(sum > B - 1) BY DEF Sbc, SetNZ, Machines
<1>5. sum = s.a - s.m - (1 - s.c) + B BY <1>1, SizeFacts DEF BitNot, Byte, Flag
<1> HIDE DEF sum
<1>6. CASE sum < B
  <2>1. Sbc(s).a = sum /\ Sbc(s).c = 0 BY <1>2, <1>3, <1>4, <1>6, SizeFacts DEF Set
  <2> QED BY <2>1, <1>1, <1>2, <1>5, <1>6, SizeFacts DEF Byte, Flag
<1>7. CASE sum >= B
  <2>1. Sbc(s).a = sum - B /\ Sbc(s).c = 1 BY <1>2, <1>3, <1>4, <1>7, SizeFacts DEF Set
  <2> QED BY <2>1, <1>1, <1>2, <1>5, <1>7, SizeFacts DEF Byte, Flag
<1> QED BY <1>2, <1>6, <1>7, SizeFacts

\* The bytes between two sums: an instruction that moves the high byte in keeps the carry,
\* and every state stays one.
LEMMA ClearedState ==
  ASSUME NEW s \in Machines
  PROVE  /\ Clc(s) \in Machines /\ Sec(s) \in Machines
         /\ Clc(s) = [s EXCEPT !.c = 0] /\ Sec(s) = [s EXCEPT !.c = 1]
BY DEF Clc, Sec, Machines, Flag

LEMMA HighByte ==
  ASSUME NEW s \in Machines, NEW r \in Machines, NEW b \in Byte, r.y = s.y
  PROVE  LET t == With(Tya(r), b)
         IN  /\ t \in Machines
             /\ t.a = s.y /\ t.m = b /\ t.c = r.c
<1> DEFINE t == With(Tya(r), b)
<1>1. /\ t.a = r.y /\ t.x = r.x /\ t.y = r.y /\ t.m = b /\ t.c = r.c /\ t.v = r.v
      /\ t.z = (r.y = 0) /\ t.n = Negative(r.y)
  BY DEF With, Tya, SetNZ, Machines
<1>2. t.z \in BOOLEAN /\ t.n \in BOOLEAN BY <1>1 DEF Negative
<1>3. /\ t.a \in Byte /\ t.x \in Byte /\ t.y \in Byte /\ t.m \in Byte
      /\ t.c \in Flag /\ t.v \in BOOLEAN
  BY <1>1 DEF Machines
<1>4. t \in Machines BY <1>2, <1>3 DEF With, Tya, SetNZ, Machines
<1> QED BY <1>1, <1>4

LEMMA SumState ==
  ASSUME NEW s \in Machines
  PROVE  Adc(s) \in Machines /\ Adc(s).y = s.y
<1>1. Adc(s).a \in Byte /\ Adc(s).c \in Flag BY ByteSum
<1>2. /\ Adc(s).x = s.x /\ Adc(s).y = s.y /\ Adc(s).m = s.m
      /\ Adc(s).z \in BOOLEAN /\ Adc(s).n \in BOOLEAN /\ Adc(s).v \in BOOLEAN
  BY DEF Adc, SetNZ, Machines, Negative, Overflows
<1> QED BY <1>1, <1>2 DEF Adc, SetNZ, Machines

LEMMA DifferenceState ==
  ASSUME NEW s \in Machines
  PROVE  Sbc(s) \in Machines /\ Sbc(s).y = s.y
<1>1. Sbc(s).a \in Byte /\ Sbc(s).c \in Flag BY ByteDifference
<1>2. /\ Sbc(s).x = s.x /\ Sbc(s).y = s.y /\ Sbc(s).m = s.m
      /\ Sbc(s).z \in BOOLEAN /\ Sbc(s).n \in BOOLEAN /\ Sbc(s).v \in BOOLEAN
  BY DEF Sbc, SetNZ, Machines, Negative, Overflows
<1> QED BY <1>1, <1>2 DEF Sbc, SetNZ, Machines

\* Distributing B, where the solver has no product of two unknowns to reason about.
LEMMA Distributes ==
  ASSUME NEW j \in Int, NEW k \in Int
  PROVE  /\ B * (j + k) = B * j + B * k
         /\ B * (j - k) = B * j - B * k
         /\ B * (B * k) = (B * B) * k
BY SizeFacts, Z3

\* CLC; ADC low; TYA; ADC high: the sum of two numbers of two bytes, the carry on top.
THEOREM WordSum ==
  ASSUME NEW s \in Machines, NEW high \in Byte
  PROVE  LET sum == Adc(Clc(s))
             sumHigh == Adc(With(Tya(sum), high))
         IN  Word(sum.a, sumHigh.a) + Words * sumHigh.c = Word(s.a, s.y) + Word(s.m, high)
<1> DEFINE sum == Adc(Clc(s))
           second == With(Tya(sum), high)
           sumHigh == Adc(second)
<1>1. Clc(s) \in Machines /\ Clc(s).a = s.a /\ Clc(s).m = s.m /\ Clc(s).c = 0 /\ Clc(s).y = s.y
  <2>1. Clc(s) \in Machines /\ Clc(s) = [s EXCEPT !.c = 0] BY ClearedState
  <2> QED BY <2>1, Zenon DEF Machines
<1>2. sum \in Machines /\ sum.y = s.y BY <1>1, SumState
<1>3. sum.a + B * sum.c = s.a + s.m BY <1>1, ByteSum DEF Machines, Byte
<1>4. second \in Machines /\ second.a = s.y /\ second.m = high /\ second.c = sum.c
  BY <1>2, HighByte
<1>5. sumHigh.a + B * sumHigh.c = s.y + high + sum.c BY <1>4, ByteSum
<1>6. sumHigh.a \in Int /\ sumHigh.c \in Int BY <1>4, ByteSum DEF Byte, Flag
<1>7. /\ s.a \in Int /\ s.m \in Int /\ s.y \in Int /\ high \in Int
      /\ sum.a \in Int /\ sum.c \in Int /\ B \in Int
  BY <1>2, SizeFacts DEF Machines, Byte, Flag
<1> HIDE DEF sum, sumHigh, second
<1>8. B * (sumHigh.a + B * sumHigh.c) = B * sumHigh.a + (B * B) * sumHigh.c
  BY <1>6, <1>7, Distributes
<1>9. B * (s.y + high + sum.c) = B * s.y + B * high + B * sum.c
  BY <1>7, Distributes
<1>10. /\ B * sumHigh.a \in Int /\ (B * B) * sumHigh.c \in Int /\ B * sum.c \in Int
       /\ B * s.y \in Int /\ B * high \in Int
  BY <1>6, <1>7
<1>11. B * sumHigh.a + (B * B) * sumHigh.c = B * s.y + B * high + B * sum.c
  BY <1>5, <1>8, <1>9
<1>12. (sum.a + B * sumHigh.a) + (B * B) * sumHigh.c = (s.a + B * s.y) + (s.m + B * high)
  <2> DEFINE p == B * sumHigh.a
             q == (B * B) * sumHigh.c
             r == B * sum.c
             t == B * s.y
             u == B * high
  <2>1. p \in Int /\ q \in Int /\ r \in Int /\ t \in Int /\ u \in Int BY <1>10
  <2>2. sum.a + r = s.a + s.m /\ p + q = t + u + r BY <1>3, <1>11
  <2> HIDE DEF p, q, r, t, u
  <2>3. \A l, a, m \in Int : l + r = a + m => (l + p) + q = (a + t) + (m + u)
    BY <2>1, <2>2
  <2>4. (sum.a + p) + q = (s.a + t) + (s.m + u) BY <1>7, <2>2, <2>3
  <2> QED BY <2>4 DEF p, q, r, t, u
<1>13. Word(sum.a, sumHigh.a) + Words * sumHigh.c = Word(s.a, s.y) + Word(s.m, high)
  BY <1>12 DEF Word, Words
<1> QED BY <1>13 DEF sum, sumHigh, second

LEMMA WordBounds ==
  ASSUME NEW low \in Byte, NEW high \in Byte
  PROVE  Word(low, high) \in Int /\ 0 <= Word(low, high) /\ Word(low, high) < Words
<1>1. low \in Int /\ high \in Int /\ B \in Int /\ 0 <= low /\ low < B /\ 0 <= high /\ high <= B - 1
  BY SizeFacts DEF Byte
<1>2. B * high \in Int /\ 0 <= B * high /\ B * high <= B * (B - 1)
  BY <1>1, SizeFacts, Z3
<1>3. B * (B - 1) = B * B - B * 1 BY <1>1, Distributes
<1> QED BY <1>1, <1>2, <1>3 DEF Word, Words

\* SEC; SBC low; TYA; SBC high: the difference of two numbers of two bytes, and BCS after
\* it is taken if it is not negative.
THEOREM WordDifference ==
  ASSUME NEW s \in Machines, NEW high \in Byte
  PROVE  LET difference == Sbc(Sec(s))
             differenceHigh == Sbc(With(Tya(difference), high))
             P == Word(s.a, s.y)
             Q == Word(s.m, high)
         IN  /\ Word(difference.a, differenceHigh.a) = (P - Q) + Words * (1 - differenceHigh.c)
             /\ Bcs(differenceHigh) <=> P >= Q
<1> DEFINE low == Sbc(Sec(s))
           second == With(Tya(low), high)
           top == Sbc(second)
           P == Word(s.a, s.y)
           Q == Word(s.m, high)
<1>1. Sec(s) \in Machines /\ Sec(s).a = s.a /\ Sec(s).m = s.m /\ Sec(s).c = 1 /\ Sec(s).y = s.y
  <2>1. Sec(s) \in Machines /\ Sec(s) = [s EXCEPT !.c = 1] BY ClearedState
  <2> QED BY <2>1, Zenon DEF Machines
<1>2. low \in Machines /\ low.y = s.y BY <1>1, DifferenceState
<1>3. low.a = s.a - s.m + B * (1 - low.c) BY <1>1, ByteDifference DEF Machines, Byte
<1>4. second \in Machines /\ second.a = s.y /\ second.m = high /\ second.c = low.c
  BY <1>2, HighByte
<1>5. top.a = s.y - high - (1 - low.c) + B * (1 - top.c) BY <1>4, ByteDifference
<1>6. top.a \in Byte /\ top.c \in Flag /\ low.a \in Byte BY <1>2, <1>4, ByteDifference DEF Machines
<1>7. /\ s.a \in Int /\ s.m \in Int /\ s.y \in Int /\ high \in Int /\ B \in Int
      /\ low.a \in Int /\ low.c \in Int /\ top.a \in Int /\ top.c \in Int
  BY <1>2, <1>6, SizeFacts DEF Machines, Byte, Flag
<1> HIDE DEF low, second, top
<1>8. B * top.a = B * s.y - B * high - B * (1 - low.c) + (B * B) * (1 - top.c)
  <2> DEFINE g == 1 - low.c
             h == 1 - top.c
  <2>1. g \in Int /\ h \in Int /\ B * h \in Int BY <1>7
  <2>2. top.a = s.y - high - g + B * h BY <1>5
  <2> HIDE DEF g, h
  <2>3. B * top.a = B * s.y - B * high - B * g + B * (B * h)
    BY <1>7, <2>1, <2>2, Distributes
  <2>4. B * (B * h) = (B * B) * h BY <2>1, Distributes
  <2> QED BY <2>3, <2>4 DEF g, h
<1>9. Word(low.a, top.a) = (P - Q) + Words * (1 - top.c)
  <2> DEFINE p == B * top.a
             q == (B * B) * (1 - top.c)
             r == B * (1 - low.c)
             t == B * s.y
             u == B * high
  <2>1. p \in Int /\ q \in Int /\ r \in Int /\ t \in Int /\ u \in Int BY <1>7
  <2>2. low.a = s.a - s.m + r /\ p = t - u - r + q BY <1>3, <1>8
  <2> HIDE DEF p, q, r, t, u
  <2>3. \A l, a, m \in Int : l = a - m + r => l + p = ((a + t) - (m + u)) + q
    BY <2>1, <2>2
  <2>4. low.a + p = ((s.a + t) - (s.m + u)) + q BY <1>7, <2>2, <2>3
  <2> QED BY <2>4 DEF p, q, r, t, u, P, Q, Word, Words
<1>10. /\ P \in Int /\ Q \in Int /\ Words \in Int
       /\ Word(low.a, top.a) \in Int /\ 0 <= Word(low.a, top.a) /\ Word(low.a, top.a) < Words
  <2>1. P \in Int /\ Q \in Int BY WordBounds DEF Machines
  <2>2. Words \in Int BY <1>7 DEF Words
  <2> QED BY <2>1, <2>2, <1>6, WordBounds
<1> HIDE DEF P, Q
<1>11. top.c = 1 <=> P >= Q
  <2>1. CASE top.c = 0
    <3>1. Words * (1 - top.c) = Words BY <2>1, <1>10
    <3> QED BY <3>1, <2>1, <1>9, <1>10
  <2>2. CASE top.c = 1
    <3>1. Words * (1 - top.c) = 0 BY <2>2, <1>10
    <3> QED BY <3>1, <2>2, <1>9, <1>10
  <2> QED BY <1>6, <2>1, <2>2 DEF Flag
<1> QED BY <1>9, <1>11 DEF Bcs, low, second, top, P, Q

\* The undocumented types that modify memory are the two documented ones in sequence, with
\* every register, the byte in memory and all flags.
THEOREM Compositions ==
  ASSUME NEW s \in Machines
  PROVE  /\ Slo(s) = Ora(Asl(s)) /\ Rla(s) = And(Rol(s)) /\ Sre(s) = Eor(Lsr(s))
         /\ Rra(s) = Adc(Ror(s)) /\ Dcp(s) = Cmp(Dec(s)) /\ Isb(s) = Sbc(Inc(s))
<1>1. Slo(s) = Ora(Asl(s)) BY DEF Slo, Ora, Asl, SetNZ, Machines
<1>2. Rla(s) = And(Rol(s)) BY DEF Rla, And, Rol, SetNZ, Machines
<1>3. Sre(s) = Eor(Lsr(s)) BY DEF Sre, Eor, Lsr, SetNZ, Machines
<1>4. Rra(s) = Adc(Ror(s))
  <2> DEFINE rotated == Right(s.m) + s.c * Half
             carry == s.m % 2
             t == [s EXCEPT !.n = Negative(rotated), !.z = (rotated = 0), !.m = rotated, !.c = carry]
             r == (s.a + rotated + carry) % B
             over == Set(s.a + rotated + carry > B - 1)
  <2>1. Ror(s) = t BY DEF Ror, SetNZ, Machines
  <2>2. t.a = s.a /\ t.m = rotated /\ t.c = carry BY DEF Machines
  <2>3. Adc(t) = [t EXCEPT !.n = Negative(r), !.z = (r = 0), !.a = r, !.c = over,
                           !.v = Overflows(s.a, rotated, r)]
    BY <2>2 DEF Adc, SetNZ
  <2>4. Rra(s) = [s EXCEPT !.n = Negative(r), !.z = (r = 0), !.a = r, !.m = rotated,
                           !.c = over, !.v = Overflows(s.a, rotated, r)]
    BY DEF Rra, SetNZ
  <2> HIDE DEF rotated, carry, r, over
  <2> QED BY <2>1, <2>3, <2>4 DEF Machines
<1>5. Dcp(s) = Cmp(Dec(s)) BY DEF Dcp, Cmp, Dec, SetNZ, Machines
<1>6. Isb(s) = Sbc(Inc(s))
  <2> DEFINE up == Up(s.m)
             t == [s EXCEPT !.n = Negative(up), !.z = (up = 0), !.m = up]
             sum == s.a + BitNot(up) + s.c
             r == sum % B
             over == Set(sum > B - 1)
  <2>1. Inc(s) = t BY DEF Inc, SetNZ, Machines
  <2>2. t.a = s.a /\ t.m = up /\ t.c = s.c BY DEF Machines
  <2>3. Sbc(t) = [t EXCEPT !.n = Negative(r), !.z = (r = 0), !.a = r, !.c = over,
                           !.v = Overflows(s.a, BitNot(up), r)]
    BY <2>2 DEF Sbc, SetNZ
  <2>4. Isb(s) = [s EXCEPT !.n = Negative(r), !.z = (r = 0), !.a = r, !.m = up,
                           !.c = over, !.v = Overflows(s.a, BitNot(up), r)]
    BY DEF Isb, SetNZ
  <2> HIDE DEF up, sum, r, over
  <2> QED BY <2>1, <2>3, <2>4 DEF Machines
<1> QED BY <1>1, <1>2, <1>3, <1>4, <1>5, <1>6

-----------------------------------------------------------------------------
(* The bits of a byte. *)

LEMMA BitType ==
  ASSUME NEW b \in Byte, NEW w \in Weights
  PROVE  Bit(b, w) \in {0, 1} /\ (b < w => Bit(b, w) = 0)
<1>1. b \in Nat BY SizeFacts DEF Byte
<1> QED BY <1>1, Z3 DEF Bit, Weights

LEMMA SumOfBits ==
  ASSUME NEW b \in Nat, b < 256
  PROVE  b = Bit(b, 1) + 2 * Bit(b, 2) + 4 * Bit(b, 4) + 8 * Bit(b, 8) + 16 * Bit(b, 16)
               + 32 * Bit(b, 32) + 64 * Bit(b, 64) + 128 * Bit(b, 128)
BY Z3 DEF Bit

\* A byte has no bit above its size.
LEMMA ByteSize ==
  ASSUME NEW b \in Byte
  PROVE  b \in Nat /\ b < B /\ b < 256
BY SizeFacts, SizeAssumption DEF Byte

\* The digits of a byte make a byte, whose sign is the highest of them.
Digits == {d \in [Weights -> {0, 1}] : \A w \in Weights : w >= B => d[w] = 0}

LEMMA DigitsFacts ==
  ASSUME NEW d \in Digits
  PROVE  OfBits(d) \in Byte /\ (Negative(OfBits(d)) <=> d[Half] = 1)
<1>1. \A w \in {1, 2, 4, 8, 16, 32, 64, 128} : d[w] \in {0, 1} /\ (w >= B => d[w] = 0)
  BY DEF Digits, Weights
<1> DEFINE d1 == d[1]
           d2 == d[2]
           d4 == d[4]
           d8 == d[8]
           d16 == d[16]
           d32 == d[32]
           d64 == d[64]
           d128 == d[128]
           sum == d1 + 2 * d2 + 4 * d4 + 8 * d8 + 16 * d16 + 32 * d32 + 64 * d64 + 128 * d128
<1>2. /\ d1 \in {0, 1} /\ d2 \in {0, 1} /\ d4 \in {0, 1} /\ d8 \in {0, 1}
      /\ d16 \in {0, 1} /\ d32 \in {0, 1} /\ d64 \in {0, 1} /\ d128 \in {0, 1}
  BY <1>1
<1>3. OfBits(d) = sum BY DEF OfBits
<1>4. CASE B = 4
  <2>1. Half = 2 /\ d[Half] = d2 BY <1>4 DEF Half
  <2>2. d4 = 0 /\ d8 = 0 /\ d16 = 0 /\ d32 = 0 /\ d64 = 0 /\ d128 = 0 BY <1>1, <1>4
  <2> HIDE DEF d1, d2, d4, d8, d16, d32, d64, d128
  <2>3. sum \in 0 .. 3 /\ (sum >= 2 <=> d2 = 1) BY <1>2, <2>2
  <2> QED BY <1>3, <1>4, <2>1, <2>3 DEF Byte, Negative
<1>5. CASE B = 8
  <2>1. Half = 4 /\ d[Half] = d4 BY <1>5 DEF Half
  <2>2. d8 = 0 /\ d16 = 0 /\ d32 = 0 /\ d64 = 0 /\ d128 = 0 BY <1>1, <1>5
  <2> HIDE DEF d1, d2, d4, d8, d16, d32, d64, d128
  <2>3. sum \in 0 .. 7 /\ (sum >= 4 <=> d4 = 1) BY <1>2, <2>2
  <2> QED BY <1>3, <1>5, <2>1, <2>3 DEF Byte, Negative
<1>6. CASE B = 16
  <2>1. Half = 8 /\ d[Half] = d8 BY <1>6 DEF Half
  <2>2. d16 = 0 /\ d32 = 0 /\ d64 = 0 /\ d128 = 0 BY <1>1, <1>6
  <2> HIDE DEF d1, d2, d4, d8, d16, d32, d64, d128
  <2>3. sum \in 0 .. 15 /\ (sum >= 8 <=> d8 = 1) BY <1>2, <2>2
  <2> QED BY <1>3, <1>6, <2>1, <2>3 DEF Byte, Negative
<1>7. CASE B = 32
  <2>1. Half = 16 /\ d[Half] = d16 BY <1>7 DEF Half
  <2>2. d32 = 0 /\ d64 = 0 /\ d128 = 0 BY <1>1, <1>7
  <2> HIDE DEF d1, d2, d4, d8, d16, d32, d64, d128
  <2>3. sum \in 0 .. 31 /\ (sum >= 16 <=> d16 = 1) BY <1>2, <2>2
  <2> QED BY <1>3, <1>7, <2>1, <2>3 DEF Byte, Negative
<1>8. CASE B = 64
  <2>1. Half = 32 /\ d[Half] = d32 BY <1>8 DEF Half
  <2>2. d64 = 0 /\ d128 = 0 BY <1>1, <1>8
  <2> HIDE DEF d1, d2, d4, d8, d16, d32, d64, d128
  <2>3. sum \in 0 .. 63 /\ (sum >= 32 <=> d32 = 1) BY <1>2, <2>2
  <2> QED BY <1>3, <1>8, <2>1, <2>3 DEF Byte, Negative
<1>9. CASE B = 128
  <2>1. Half = 64 /\ d[Half] = d64 BY <1>9 DEF Half
  <2>2. d128 = 0 BY <1>1, <1>9
  <2> HIDE DEF d1, d2, d4, d8, d16, d32, d64, d128
  <2>3. sum \in 0 .. 127 /\ (sum >= 64 <=> d64 = 1) BY <1>2, <2>2
  <2> QED BY <1>3, <1>9, <2>1, <2>3 DEF Byte, Negative
<1>10. CASE B = 256
  <2>1. Half = 128 /\ d[Half] = d128 BY <1>10 DEF Half
  <2>2. 128 < B BY <1>10
  <2> HIDE DEF d1, d2, d4, d8, d16, d32, d64, d128
  <2> DEFINE low == d1 + 2 * d2 + 4 * d4 + 8 * d8 + 16 * d16 + 32 * d32 + 64 * d64
  <2>3. low \in 0 .. 127 /\ sum = low + 128 * d128 /\ d128 \in {0, 1} BY <1>2
  <2> HIDE DEF low, sum
  <2>4. sum \in 0 .. 255 /\ (sum >= 128 <=> d128 = 1) BY <2>3
  <2> QED BY <1>3, <1>10, <2>1, <2>4 DEF Byte, Negative
<1> QED BY <1>4, <1>5, <1>6, <1>7, <1>8, <1>9, <1>10, SizeAssumption

\* What the bits of bytes come to, and where the sign of one is.
LEMMA BitsOf ==
  ASSUME NEW b \in Byte
  PROVE  /\ \A w \in Weights : Bit(b, w) \in {0, 1} /\ (w >= B => Bit(b, w) = 0)
         /\ b = OfBits([w \in Weights |-> Bit(b, w)])
         /\ Negative(b) <=> Bit(b, Half) = 1
<1> DEFINE d == [w \in Weights |-> Bit(b, w)]
<1>1. \A w \in Weights : Bit(b, w) \in {0, 1} /\ (w >= B => Bit(b, w) = 0)
  BY BitType, ByteSize, SizeFacts DEF Weights
<1>2. d \in Digits BY <1>1 DEF Digits
<1>3. /\ d[1] = Bit(b, 1) /\ d[2] = Bit(b, 2) /\ d[4] = Bit(b, 4) /\ d[8] = Bit(b, 8)
      /\ d[16] = Bit(b, 16) /\ d[32] = Bit(b, 32) /\ d[64] = Bit(b, 64) /\ d[128] = Bit(b, 128)
  BY DEF Weights
<1>4. d[Half] = Bit(b, Half) BY SizeAssumption DEF Weights, Half
<1> HIDE DEF d
<1>5. b = OfBits(d) BY <1>3, ByteSize, SumOfBits DEF OfBits
<1>6. Negative(b) <=> Bit(b, Half) = 1 BY <1>2, <1>4, <1>5, DigitsFacts
<1> QED BY <1>1, <1>5, <1>6, Zenon DEF d

\* In an AND a bit is set that is set in both, in an XOR one that is set in one of them.
LEMMA BitPairs ==
  ASSUME NEW m \in Byte, NEW n \in Byte, NEW w \in Weights
  PROVE  LET i == Bit(m, w)
             j == Bit(n, w)
         IN  /\ i \in {0, 1} /\ j \in {0, 1}
             /\ i * j = IF i = 1 /\ j = 1 THEN 1 ELSE 0
             /\ (i + j) % 2 = IF i # j THEN 1 ELSE 0
             /\ w >= B => i = 0 /\ j = 0
<1>1. Bit(m, w) \in {0, 1} /\ Bit(n, w) \in {0, 1} /\ (w >= B => Bit(m, w) = 0 /\ Bit(n, w) = 0)
  BY BitsOf
<1>2. \A i, j \in {0, 1} : /\ i * j = IF i = 1 /\ j = 1 THEN 1 ELSE 0
                           /\ (i + j) % 2 = IF i # j THEN 1 ELSE 0
  BY Z3
<1> QED BY <1>1, <1>2

LEMMA AndFacts ==
  ASSUME NEW m \in Byte, NEW n \in Byte
  PROVE  BitAnd(m, n) \in Byte /\ (Negative(BitAnd(m, n)) <=> Negative(m) /\ Negative(n))
<1> DEFINE d == [w \in Weights |-> Bit(m, w) * Bit(n, w)]
<1>1. BitAnd(m, n) = OfBits(d) BY Zenon DEF BitAnd, AndTable
<1>2. d \in Digits BY BitPairs DEF Digits
<1>3. d[Half] = 1 <=> Bit(m, Half) = 1 /\ Bit(n, Half) = 1
  <2>1. Half \in Weights BY SizeAssumption DEF Weights, Half
  <2>2. d[Half] = Bit(m, Half) * Bit(n, Half) BY <2>1
  <2> QED BY <2>1, <2>2, BitPairs
<1> HIDE DEF d
<1> QED BY <1>1, <1>2, <1>3, BitsOf, DigitsFacts

LEMMA XorFacts ==
  ASSUME NEW m \in Byte, NEW n \in Byte
  PROVE  BitXor(m, n) \in Byte /\ (Negative(BitXor(m, n)) <=> (Negative(m) <=> ~Negative(n)))
<1> DEFINE d == [w \in Weights |-> (Bit(m, w) + Bit(n, w)) % 2]
<1>1. BitXor(m, n) = OfBits(d) BY Zenon DEF BitXor, XorTable
<1>2. d \in Digits BY BitPairs DEF Digits
<1>3. d[Half] = 1 <=> (Bit(m, Half) = 1 <=> ~(Bit(n, Half) = 1))
  <2>1. Half \in Weights BY SizeAssumption DEF Weights, Half
  <2>2. d[Half] = (Bit(m, Half) + Bit(n, Half)) % 2 BY <2>1
  <2> QED BY <2>1, <2>2, BitPairs
<1> HIDE DEF d
<1> QED BY <1>1, <1>2, <1>3, BitsOf, DigitsFacts

\* OR makes a byte, and AND with all bits set changes nothing.
LEMMA OrFacts ==
  ASSUME NEW m \in Byte, NEW n \in Byte
  PROVE  BitOr(m, n) \in Byte
<1> DEFINE i == [w \in Weights |-> Bit(m, w)]
           j == [w \in Weights |-> Bit(n, w)]
           k == [w \in Weights |-> Bit(m, w) * Bit(n, w)]
           d == [w \in Weights |-> i[w] + j[w] - k[w]]
<1>1. BitAnd(m, n) = OfBits(k) BY Zenon DEF BitAnd, AndTable
<1>2. m = OfBits(i) /\ n = OfBits(j) BY BitsOf
<1>3. \A w \in Weights : /\ i[w] \in {0, 1} /\ j[w] \in {0, 1} /\ k[w] \in {0, 1}
                         /\ k[w] = IF i[w] = 1 /\ j[w] = 1 THEN 1 ELSE 0
                         /\ w >= B => i[w] = 0 /\ j[w] = 0
  BY BitPairs
<1>4. \A w \in Weights : d[w] = i[w] + j[w] - k[w] OBVIOUS
<1> HIDE DEF i, j, k
<1>5. d \in Digits BY <1>3 DEF Digits
<1> HIDE DEF d
<1>6. OfBits(d) = OfBits(i) + OfBits(j) - OfBits(k)
  <2> DEFINE I(w) == i[w]
             J(w) == j[w]
             K(w) == k[w]
  <2>1. \A w \in {1, 2, 4, 8, 16, 32, 64, 128} :
           I(w) \in Int /\ J(w) \in Int /\ K(w) \in Int /\ d[w] = I(w) + J(w) - K(w)
    BY <1>3, <1>4 DEF Weights
  <2>2. OfBits(i) = I(1) + 2 * I(2) + 4 * I(4) + 8 * I(8) + 16 * I(16) + 32 * I(32)
                     + 64 * I(64) + 128 * I(128)
    BY DEF OfBits
  <2>3. OfBits(j) = J(1) + 2 * J(2) + 4 * J(4) + 8 * J(8) + 16 * J(16) + 32 * J(32)
                     + 64 * J(64) + 128 * J(128)
    BY DEF OfBits
  <2>4. OfBits(k) = K(1) + 2 * K(2) + 4 * K(4) + 8 * K(8) + 16 * K(16) + 32 * K(32)
                     + 64 * K(64) + 128 * K(128)
    BY DEF OfBits
  <2> HIDE DEF I, J, K
  <2>5. OfBits(d) = (I(1) + J(1) - K(1)) + 2 * (I(2) + J(2) - K(2)) + 4 * (I(4) + J(4) - K(4))
                     + 8 * (I(8) + J(8) - K(8)) + 16 * (I(16) + J(16) - K(16))
                     + 32 * (I(32) + J(32) - K(32)) + 64 * (I(64) + J(64) - K(64))
                     + 128 * (I(128) + J(128) - K(128))
    BY <2>1 DEF OfBits
  <2> QED BY <2>1, <2>2, <2>3, <2>4, <2>5, Z3
<1> QED BY <1>1, <1>2, <1>5, <1>6, DigitsFacts DEF BitOr

LEMMA AndAll ==
  ASSUME NEW b \in Byte
  PROVE  B - 1 \in Byte /\ BitAnd(b, B - 1) = b /\ BitAnd(B - 1, b) = b
<1>1. B - 1 \in Byte BY SizeFacts DEF Byte
<1>2. \A w \in Weights : w < B => Bit(B - 1, w) = 1
  BY SizeAssumption, Z3 DEF Bit, Weights
<1>3. \A w \in Weights : /\ Bit(b, w) * Bit(B - 1, w) = Bit(b, w)
                         /\ Bit(B - 1, w) * Bit(b, w) = Bit(b, w)
  <2> TAKE w \in Weights
  <2>1. /\ Bit(b, w) \in {0, 1} /\ Bit(B - 1, w) \in {0, 1} /\ (w >= B => Bit(b, w) = 0)
    BY <1>1, BitsOf
  <2>2. w \in Nat /\ B \in Nat BY SizeFacts DEF Weights
  <2> QED BY <1>2, <2>1, <2>2
<1>4. /\ BitAnd(b, B - 1) = OfBits([w \in Weights |-> Bit(b, w) * Bit(B - 1, w)])
      /\ BitAnd(B - 1, b) = OfBits([w \in Weights |-> Bit(B - 1, w) * Bit(b, w)])
  BY <1>1, Zenon DEF BitAnd, AndTable
<1>5. /\ [w \in Weights |-> Bit(b, w) * Bit(B - 1, w)] = [w \in Weights |-> Bit(b, w)]
      /\ [w \in Weights |-> Bit(B - 1, w) * Bit(b, w)] = [w \in Weights |-> Bit(b, w)]
  BY <1>3
<1> QED BY <1>1, <1>4, <1>5, BitsOf

\* The sign of a sum differs from that of both terms.
LEMMA OverflowIs ==
  ASSUME NEW p \in Byte, NEW q \in Byte, NEW r \in Byte
  PROVE  Overflows(p, q, r) <=> (Negative(p) <=> ~Negative(r)) /\ (Negative(q) <=> ~Negative(r))
BY XorFacts, AndFacts DEF Overflows

-----------------------------------------------------------------------------
(* Types: every instruction makes bytes of bytes. *)

LEMMA ByteOperators ==
  ASSUME NEW b \in Byte, NEW q \in Byte, NEW c \in Flag
  PROVE  /\ Up(b) \in Byte /\ Down(b) \in Byte /\ BitNot(b) \in Byte
         /\ Left(b) \in Byte /\ Right(b) \in Byte
         /\ Left(b) + c \in Byte /\ Right(b) + c * Half \in Byte
         /\ (b + B - q) % B \in Byte /\ (b + q + c) % B \in Byte
         /\ b % 2 \in Flag
<1>1. b \in Nat /\ b < B /\ q \in Nat /\ q < B /\ c \in {0, 1} BY ByteSize DEF Flag
<1>2. B \in Nat /\ B > 0 /\ Half \in Nat /\ 2 * Half = B BY SizeFacts
<1>3. \A k \in Int : k % B \in Byte BY <1>2, Z3 DEF Byte
<1>4. b % 2 \in Flag BY <1>1, Z3 DEF Flag
<1>5. Up(b) \in Byte /\ Down(b) \in Byte /\ (b + B - q) % B \in Byte /\ (b + q + c) % B \in Byte
  BY <1>1, <1>2, <1>3 DEF Up, Down
<1>6. Left(b) \in Byte /\ BitNot(b) \in Byte BY <1>1, <1>2, <1>3 DEF Left, BitNot, Byte
<1>7. Right(b) \in Nat /\ Right(b) < Half BY <1>1, <1>2, Z3 DEF Right
<1>8. c * Half = IF c = 0 THEN 0 ELSE Half BY <1>1, <1>2
<1>9. Right(b) \in Byte /\ Right(b) + c * Half \in Byte BY <1>1, <1>2, <1>7, <1>8 DEF Byte
<1>10. Left(b) + c \in Byte
  <2>1. Left(b) = IF 2 * b < B THEN 2 * b ELSE 2 * b - B BY <1>1, <1>2, Wraps DEF Left
  <2>2. 2 * b + 1 < B \/ 2 * b >= B BY <1>1, <1>2
  <2>3. 2 * b - B + 1 < B BY <1>1, <1>2
  <2> QED BY <2>1, <2>2, <2>3, <1>1, <1>2 DEF Byte
<1> QED BY <1>4, <1>5, <1>6, <1>9, <1>10

LEMMA SetIs == \A p \in BOOLEAN : Set(p) \in Flag
BY DEF Set, Flag

LEMMA MovesType == ASSUME NEW s \in Machines PROVE Moves(s) \subseteq Machines
<1>1. s.a \in Byte /\ s.x \in Byte /\ s.y \in Byte /\ s.m \in Byte BY DEF Machines
<1>2. BitOr(s.a, B - 1) \in Byte BY <1>1, AndAll, OrFacts
<1>3. /\ BitAnd(BitOr(s.a, B - 1), s.m) \in Byte /\ BitAnd(BitOr(s.a, B - 1), s.x) \in Byte
      /\ BitAnd(BitAnd(BitOr(s.a, B - 1), s.x), s.m) \in Byte /\ BitAnd(s.a, s.x) \in Byte
  BY <1>1, <1>2, AndFacts
<1>4. \A r \in Byte : Negative(r) \in BOOLEAN BY DEF Negative
<1>5. /\ Lda(s) \in Machines /\ Ldx(s) \in Machines /\ Ldy(s) \in Machines /\ Pla(s) \in Machines
      /\ Lax(s) \in Machines
  BY <1>1, <1>4 DEF Lda, Ldx, Ldy, Pla, Lax, SetNZ, Machines
<1>6. Atx(s) \in Machines /\ Xaa(s) \in Machines BY <1>1, <1>3, <1>4 DEF Atx, Xaa, SetNZ, Machines
<1>7. Sta(s) \in Machines /\ Stx(s) \in Machines /\ Sty(s) \in Machines /\ Sax(s) \in Machines
  BY <1>1, <1>3 DEF Sta, Stx, Sty, Sax, Machines
<1>8. Tax(s) \in Machines /\ Tay(s) \in Machines /\ Txa(s) \in Machines /\ Tya(s) \in Machines
  BY <1>1, <1>4 DEF Tax, Tay, Txa, Tya, SetNZ, Machines
<1> QED BY <1>5, <1>6, <1>7, <1>8 DEF Moves

LEMMA LogicType == ASSUME NEW s \in Machines PROVE Logic(s) \subseteq Machines
<1>1. s.a \in Byte /\ s.x \in Byte /\ s.y \in Byte /\ s.m \in Byte BY DEF Machines
<1>2. BitAnd(s.a, s.m) \in Byte /\ BitOr(s.a, s.m) \in Byte /\ BitXor(s.a, s.m) \in Byte
  BY <1>1, AndFacts, OrFacts, XorFacts
<1>3. \A r \in Byte : Negative(r) \in BOOLEAN /\ Set(Negative(r)) \in Flag BY DEF Negative, Set, Flag
<1>4. And(s) \in Machines /\ Ora(s) \in Machines /\ Eor(s) \in Machines /\ Aac(s) \in Machines
  BY <1>2, <1>3 DEF And, Ora, Eor, Aac, SetNZ, Machines
<1>5. BitTest(s) \in Machines
  <2> DEFINE z == BitAnd(s.a, s.m) = 0
             n == Negative(s.m)
             v == s.m % Half >= Half \div 2
  <2>1. z \in BOOLEAN /\ n \in BOOLEAN /\ v \in BOOLEAN BY DEF Negative
  <2> HIDE DEF z, n, v
  <2>2. [s EXCEPT !.z = z, !.n = n, !.v = v] \in Machines BY <2>1 DEF Machines
  <2> QED BY <2>2 DEF BitTest, z, n, v
<1>6. Clc(s) \in Machines /\ Sec(s) \in Machines /\ Clv(s) \in Machines BY DEF Clc, Sec, Clv, Machines, Flag
<1> QED BY <1>4, <1>5, <1>6 DEF Logic

LEMMA SumsType == ASSUME NEW s \in Machines PROVE Sums(s) \subseteq Machines
<1>1. s.a \in Byte /\ s.x \in Byte /\ s.y \in Byte /\ s.m \in Byte /\ s.c \in Flag BY DEF Machines
<1>2. BitAnd(s.a, s.x) \in Byte BY <1>1, AndFacts
<1>3. \A r \in Byte : Negative(r) \in BOOLEAN BY DEF Negative
<1>4. \A p, q : Set(p >= q) \in Flag BY DEF Set, Flag
<1>5. \A p, q \in Byte : (p + B - q) % B \in Byte
  <2> TAKE p, q \in Byte
  <2> QED BY <1>1, ByteOperators
<1>6. \A p \in Byte : Up(p) \in Byte /\ Down(p) \in Byte
  <2> TAKE p \in Byte
  <2> QED BY <1>1, ByteOperators
<1>7. Cmp(s) \in Machines /\ Cpx(s) \in Machines /\ Cpy(s) \in Machines
  BY <1>1, <1>3, <1>4, <1>5 DEF Cmp, Cpx, Cpy, SetNZ, Machines
<1>8. Axs(s) \in Machines BY <1>1, <1>2, <1>3, <1>4, <1>5 DEF Axs, SetNZ, Machines
<1>9. /\ Inx(s) \in Machines /\ Iny(s) \in Machines /\ Dex(s) \in Machines /\ Dey(s) \in Machines
      /\ Inc(s) \in Machines /\ Dec(s) \in Machines
  BY <1>1, <1>3, <1>6 DEF Inx, Iny, Dex, Dey, Inc, Dec, SetNZ, Machines
<1> QED BY <1>7, <1>8, <1>9, SumState, DifferenceState DEF Sums

LEMMA ShiftsType == ASSUME NEW s \in Machines PROVE Shifts(s) \subseteq Machines
<1>1. s.a \in Byte /\ s.x \in Byte /\ s.y \in Byte /\ s.m \in Byte /\ s.c \in Flag BY DEF Machines
<1>2. BitAnd(s.a, s.m) \in Byte BY <1>1, AndFacts
<1>3. \A r \in Byte : /\ Negative(r) \in BOOLEAN /\ Set(Negative(r)) \in Flag
                      /\ LeftCarry(r) \in Flag /\ RightCarry(r) \in Flag
                      /\ Left(r) \in Byte /\ Right(r) \in Byte
                      /\ Left(r) + s.c \in Byte /\ Right(r) + s.c * Half \in Byte /\ r % 2 \in Flag
  <2> TAKE r \in Byte
  <2>1. Negative(r) \in BOOLEAN BY DEF Negative
  <2> QED BY <1>1, <2>1, ByteOperators, SetIs DEF LeftCarry, RightCarry
<1>4. Asl(s) \in Machines /\ AslA(s) \in Machines /\ Lsr(s) \in Machines /\ LsrA(s) \in Machines
  BY <1>1, <1>3 DEF Asl, AslA, Lsr, LsrA, SetNZ, Machines
<1>5. Rol(s) \in Machines /\ RolA(s) \in Machines /\ Ror(s) \in Machines /\ RorA(s) \in Machines
  BY <1>1, <1>3 DEF Rol, RolA, Ror, RorA, SetNZ, Machines
<1>6. Asr(s) \in Machines BY <1>1, <1>2, <1>3 DEF Asr, SetNZ, Machines
<1>7. Arr(s) \in Machines
  <2> DEFINE r == Right(BitAnd(s.a, s.m)) + s.c * Half
             second == ((2 * r) \div Half) % 2
             third == ((4 * r) \div Half) % 2
             v == second # third
  <2>1. r \in Byte BY <1>2, <1>3
  <2>2. second \in Flag
    <3> HIDE DEF r
    <3> QED BY <2>1, SizeFacts, ByteSize, Z3 DEF Flag
  <2>3. v \in BOOLEAN OBVIOUS
  <2> HIDE DEF second, third, v
  <2>4. [SetNZ(s, r) EXCEPT !.a = r, !.c = second, !.v = v] \in Machines
    <3> HIDE DEF r
    <3> QED BY <1>3, <2>1, <2>2, <2>3 DEF SetNZ, Machines
  <2> QED BY <2>4 DEF Arr, second, third, v
<1> QED BY <1>4, <1>5, <1>6, <1>7 DEF Shifts

LEMMA CombinedType == ASSUME NEW s \in Machines PROVE Combined(s) \subseteq Machines
<1>1. /\ Asl(s) \in Machines /\ Rol(s) \in Machines /\ Lsr(s) \in Machines /\ Ror(s) \in Machines
      /\ Dec(s) \in Machines /\ Inc(s) \in Machines
  BY ShiftsType, SumsType DEF Shifts, Sums
<1>2. /\ Ora(Asl(s)) \in Machines /\ And(Rol(s)) \in Machines /\ Eor(Lsr(s)) \in Machines
      /\ Adc(Ror(s)) \in Machines /\ Cmp(Dec(s)) \in Machines /\ Sbc(Inc(s)) \in Machines
  BY <1>1, LogicType, SumsType DEF Logic, Sums
<1> QED BY <1>2, Compositions DEF Combined

\* Registers and memory hold bytes, whatever instructions come one after the other.
THEOREM AluTypes == AluSpec => []AluTypeOK
<1>1. AluInit => AluTypeOK
  <2>1. 0 \in Byte /\ 0 \in Flag BY SizeFacts DEF Byte, Flag
  <2> QED BY <2>1 DEF AluInit, AluTypeOK
<1>2. AluTypeOK /\ [AluNext]_aluVars => AluTypeOK'
  <2> SUFFICES ASSUME machine \in Machines, [AluNext]_aluVars PROVE machine' \in Machines
    BY DEF AluTypeOK, Machines
  <2>1. ASSUME NEW b \in Byte, machine' = With(machine, b) PROVE machine' \in Machines
    BY <2>1 DEF With, Machines
  <2> QED BY <2>1, MovesType, LogicType, SumsType, ShiftsType, CombinedType DEF AluNext, aluVars
<1> QED BY <1>1, <1>2, PTL DEF AluSpec

-----------------------------------------------------------------------------
(* The two CPUs, type by type. *)

LEMMA FirstSums ==
  ASSUME NEW s \in Machines
  PROVE  Adc(s) = adc(s) /\ Sbc(s) = sbc(s)
<1>1. s.a \in Byte /\ s.m \in Byte /\ s.c \in Flag BY DEF Machines
<1>2. Adc(s) = adc(s)
  BY DEF Adc, adc, SetNZ, Accumulator, update_zero_and_negative_flags, Overflows, Set, FLAG, Machines
<1>3. Sbc(s) = sbc(s)
  <2> DEFINE inverted == BitNot(s.m)
             sum == s.a + inverted + s.c
             r == sum % B
             over == /\ Negative(s.a) = Negative(inverted)
                     /\ Negative(s.a) # Negative(r)
  <2>1. inverted \in Byte /\ r \in Byte BY <1>1, ByteOperators
  <2>2. \A p \in Byte : Negative(p) \in BOOLEAN BY DEF Negative
  <2>3. Overflows(s.a, inverted, r) \in BOOLEAN /\ over \in BOOLEAN BY DEF Overflows, Negative
  <2>4. Overflows(s.a, inverted, r) = over
    <3> HIDE DEF inverted, r
    <3> QED BY <1>1, <2>1, <2>2, <2>3, OverflowIs
  <2>5. Set(sum > B - 1) = FLAG(sum >= B)
    <3>1. sum \in Int BY <1>1, <2>1, ByteSize DEF Flag
    <3> HIDE DEF sum
    <3> QED BY <3>1, SizeFacts DEF Set, FLAG
  <2> HIDE DEF inverted, r, over, sum
  <2>6. [SetNZ(s, r) EXCEPT !.a = r, !.c = Set(sum > B - 1), !.v = Overflows(s.a, inverted, r)]
          = Accumulator([s EXCEPT !.c = FLAG(sum >= B), !.v = over], r)
    BY <2>4, <2>5 DEF SetNZ, Accumulator, update_zero_and_negative_flags, Machines
  <2> QED BY <2>6 DEF Sbc, sbc, inverted, r, over, sum
<1> QED BY <1>2, <1>3

LEMMA FirstLogic ==
  ASSUME NEW s \in Machines
  PROVE  And(s) = and(s) /\ Ora(s) = ora(s) /\ Eor(s) = eor(s) /\ BitTest(s) = bit(s)
<1>1. And(s) = and(s) /\ Ora(s) = ora(s) /\ Eor(s) = eor(s)
  BY DEF And, Ora, Eor, and, ora, eor, SetNZ, Accumulator, update_zero_and_negative_flags, Machines
<1>2. s.m \in Nat /\ s.m < B BY ByteSize DEF Machines
<1>3. (s.m % Half >= Half \div 2) = (((4 * s.m) \div B) % 2 = 1)
  BY <1>2, SizeAssumption, Z3 DEF Half
<1>4. BitTest(s) = bit(s) BY <1>3, Zenon DEF BitTest, bit
<1> QED BY <1>1, <1>4

LEMMA FirstComparisons ==
  ASSUME NEW s \in Machines
  PROVE  Cmp(s) = cmp(s) /\ Cpx(s) = cpx(s) /\ Cpy(s) = cpy(s)
<1>1. \A p, q \in Byte : ((p + B - q) % B = 0) = (p = q)
  <2> TAKE p, q \in Byte
  <2>1. p \in Nat /\ q \in Nat /\ p < B /\ q < B /\ B \in Nat BY ByteSize, SizeFacts
  <2>2. (p + B - q) % B = IF p + B - q < B THEN p + B - q ELSE p - q BY <2>1, Wraps
  <2> QED BY <2>1, <2>2
<1>2. s.a \in Byte /\ s.x \in Byte /\ s.y \in Byte /\ s.m \in Byte BY DEF Machines
<1>3. \A r \in Byte :
        [SetNZ(s, (r + B - s.m) % B) EXCEPT !.c = Set(r >= s.m)] = compare(s, r)
  <2> TAKE r \in Byte
  <2> DEFINE d == (r + B - s.m) % B
             z == d = 0
             e == r = s.m
             p == r >= s.m
  <2>1. z = e BY <1>1, <1>2
  <2> HIDE DEF d, z, e, p
  <2>2. [[s EXCEPT !.n = Negative(d), !.z = z] EXCEPT !.c = Set(p)]
          = [s EXCEPT !.c = FLAG(p), !.z = e, !.n = Negative(d)]
    BY <2>1 DEF Set, FLAG, Machines
  <2> QED BY <2>2 DEF compare, SetNZ, d, z, e, p
<1> QED BY <1>2, <1>3 DEF Cmp, Cpx, Cpy, cmp, cpx, cpy

LEMMA FirstShifts ==
  ASSUME NEW s \in Machines
  PROVE  Asl(s) = asl(s) /\ Lsr(s) = lsr(s) /\ Rol(s) = rol(s) /\ Ror(s) = ror(s)
BY DEF Asl, Lsr, Rol, Ror, asl, lsr, rol, ror, Left, LeftCarry, Right, RightCarry, Memory, SetNZ,
       update_zero_and_negative_flags, Set, FLAG, Machines

LEMMA FirstCounts ==
  ASSUME NEW s \in Machines
  PROVE  /\ Inc(s) = inc(s) /\ Dec(s) = dec(s) /\ Inx(s) = inx(s) /\ Iny(s) = iny(s)
         /\ Dex(s) = dex(s) /\ Dey(s) = dey(s)
BY DEF Inc, Dec, Inx, Iny, Dex, Dey, inc, dec, inx, iny, dex, dey, Up, Down, Memory, RegisterX,
       RegisterY, SetNZ, update_zero_and_negative_flags, Machines

LEMMA FirstShiftsOfA ==
  ASSUME NEW s \in Machines
  PROVE  /\ AslA(s) = OnAccumulator(asl(AsMemory(s)), s) /\ LsrA(s) = OnAccumulator(lsr(AsMemory(s)), s)
         /\ RolA(s) = OnAccumulator(rol(AsMemory(s)), s) /\ RorA(s) = OnAccumulator(ror(AsMemory(s)), s)
<1>1. AslA(s) = OnAccumulator(asl(AsMemory(s)), s)
  BY Zenon DEF AslA, asl, OnAccumulator, AsMemory, Left, LeftCarry, Memory, SetNZ,
         update_zero_and_negative_flags, Set, FLAG, Machines
<1>2. LsrA(s) = OnAccumulator(lsr(AsMemory(s)), s)
  BY Zenon DEF LsrA, lsr, OnAccumulator, AsMemory, Right, RightCarry, Memory, SetNZ,
         update_zero_and_negative_flags, Set, FLAG, Machines
<1>3. RolA(s) = OnAccumulator(rol(AsMemory(s)), s)
  BY Zenon DEF RolA, rol, OnAccumulator, AsMemory, Left, LeftCarry, Memory, SetNZ,
         update_zero_and_negative_flags, Set, FLAG, Machines
<1>4. RorA(s) = OnAccumulator(ror(AsMemory(s)), s)
  BY Zenon DEF RorA, ror, OnAccumulator, AsMemory, Right, RightCarry, Memory, SetNZ,
         update_zero_and_negative_flags, Set, FLAG, Machines
<1> QED BY <1>1, <1>2, <1>3, <1>4

LEMMA FirstMoves ==
  ASSUME NEW s \in Machines
  PROVE  /\ Lda(s) = lda(s) /\ Pla(s) = lda(s) /\ Ldx(s) = ldx(s) /\ Ldy(s) = ldy(s)
         /\ Lax(s) = LAX_ABS(s) /\ Atx(s) = ATX_IMM(s)
         /\ Sta(s) = STA_ABS(s) /\ Stx(s) = STX_ABS(s) /\ Sty(s) = STY_ABS(s) /\ Sax(s) = SAX_ABS(s)
         /\ Tax(s) = tax(s) /\ Tay(s) = tay(s) /\ Txa(s) = txa(s) /\ Tya(s) = tya(s)
<1>1. /\ Lda(s) = lda(s) /\ Pla(s) = lda(s) /\ Ldx(s) = ldx(s) /\ Ldy(s) = ldy(s)
      /\ Lax(s) = LAX_ABS(s)
  BY DEF Lda, Pla, Ldx, Ldy, Lax, lda, ldx, ldy, LAX_ABS, Accumulator, RegisterX, RegisterY, SetNZ,
         update_zero_and_negative_flags, Machines
<1>2. Atx(s) = ATX_IMM(s)
  <2>1. s.a \in Byte /\ s.m \in Byte /\ B \in Nat BY SizeFacts DEF Machines
  <2>2. BitOr(s.a, B - 1) = B - 1 BY <2>1, AndAll, ByteSize DEF BitOr
  <2>3. BitAnd(BitOr(s.a, B - 1), s.m) = s.m BY <2>1, <2>2, AndAll
  <2> QED BY <2>3 DEF Atx, ATX_IMM, Accumulator, SetNZ, update_zero_and_negative_flags, Machines
<1>3. Sta(s) = STA_ABS(s) /\ Stx(s) = STX_ABS(s) /\ Sty(s) = STY_ABS(s) /\ Sax(s) = SAX_ABS(s)
  BY DEF Sta, Stx, Sty, Sax, STA_ABS, STX_ABS, STY_ABS, SAX_ABS
<1>4. Tax(s) = tax(s) /\ Tay(s) = tay(s) /\ Txa(s) = txa(s) /\ Tya(s) = tya(s)
  BY DEF Tax, Tay, Txa, Tya, tax, tay, txa, tya, Accumulator, RegisterX, RegisterY, SetNZ,
         update_zero_and_negative_flags, Machines
<1> QED BY <1>1, <1>2, <1>3, <1>4

LEMMA FirstUndocumented ==
  ASSUME NEW s \in Machines
  PROVE  Aac(s) = AAC_IMM(s) /\ Arr(s) = ARR_IMM(s) /\ Asr(s) = ASR_IMM(s) /\ Axs(s) = AXS_IMM(s)
<1>1. s.a \in Byte /\ s.x \in Byte /\ s.m \in Byte /\ s.c \in Flag BY DEF Machines
<1>2. Aac(s) = AAC_IMM(s)
  BY DEF Aac, AAC_IMM, and, Accumulator, SetNZ, update_zero_and_negative_flags, Set, FLAG, Machines
<1>3. Arr(s) = ARR_IMM(s)
  <2> DEFINE r == (BitAnd(s.a, s.m) \div 2) + s.c * Half
             second == ((2 * r) \div Half) % 2
             third == ((4 * r) \div Half) % 2
             bit6 == ((4 * r) \div B) % 2
             bit5 == ((8 * r) \div B) % 2
  <2>1. r \in Nat
    <3>1. BitAnd(s.a, s.m) \in Byte BY <1>1, AndFacts
    <3>2. r \in Byte BY <1>1, <3>1, ByteOperators DEF Right
    <3> HIDE DEF r
    <3> QED BY <3>2, ByteSize
  <2>2. second = bit6 /\ third = bit5
    <3>1. \A k \in Nat : k \div Half = (2 * k) \div B BY SizeAssumption, Z3 DEF Half
    <3> HIDE DEF r
    <3>2. 2 * r \in Nat /\ 4 * r \in Nat /\ 2 * (2 * r) = 4 * r /\ 2 * (4 * r) = 8 * r BY <2>1
    <3>3. (2 * r) \div Half = (4 * r) \div B /\ (4 * r) \div Half = (8 * r) \div B BY <3>1, <3>2
    <3> QED BY <3>3
  <2> HIDE DEF second, third, bit6, bit5, r
  <2>3. [SetNZ(s, r) EXCEPT !.a = r, !.c = second, !.v = second # third]
          = Accumulator([s EXCEPT !.c = bit6, !.v = bit6 # bit5], r)
    BY <2>2 DEF Accumulator, SetNZ, update_zero_and_negative_flags, Machines
  <2> QED BY <2>3 DEF Arr, ARR_IMM, Right, second, third, bit6, bit5, r
<1>4. Asr(s) = ASR_IMM(s)
  BY DEF Asr, ASR_IMM, Right, RightCarry, Accumulator, SetNZ, update_zero_and_negative_flags, Machines
<1>5. Axs(s) = AXS_IMM(s)
  BY DEF Axs, AXS_IMM, RegisterX, SetNZ, update_zero_and_negative_flags, Set, FLAG, Machines
<1> QED BY <1>2, <1>3, <1>4, <1>5

LEMMA FirstCombined ==
  ASSUME NEW s \in Machines
  PROVE  /\ Slo(s) = slo(s) /\ Rla(s) = rla(s) /\ Sre(s) = sre(s)
         /\ Rra(s) = rra(s) /\ Dcp(s) = dcp(s) /\ Isb(s) = isc(s)
<1>1. /\ Asl(s) \in Machines /\ Rol(s) \in Machines /\ Lsr(s) \in Machines /\ Ror(s) \in Machines
      /\ Dec(s) \in Machines /\ Inc(s) \in Machines
  BY ShiftsType, SumsType DEF Shifts, Sums
<1>2. /\ Ora(Asl(s)) = ora(Asl(s)) /\ And(Rol(s)) = and(Rol(s)) /\ Eor(Lsr(s)) = eor(Lsr(s))
      /\ Adc(Ror(s)) = adc(Ror(s)) /\ Cmp(Dec(s)) = cmp(Dec(s)) /\ Sbc(Inc(s)) = sbc(Inc(s))
  BY <1>1, FirstLogic, FirstSums, FirstComparisons
<1> QED BY <1>2, Compositions, FirstShifts, FirstCounts DEF slo, rla, sre, rra, dcp, isc

LEMMA FirstFlags ==
  ASSUME NEW s \in Machines
  PROVE  /\ <<Clc(s), Sec(s), Clv(s)>> = FlagArms(s)
         /\ <<Bpl(s), Bmi(s), Bvc(s), Bvs(s), Bcc(s), Bcs(s), Bne(s), Beq(s)>> = Conditions(s)
<1>1. <<Clc(s), Sec(s), Clv(s)>> = FlagArms(s) BY Zenon DEF Clc, Sec, Clv, FlagArms
<1>2. (s.c = 1) = (s.c # 0) BY DEF Machines, Flag
<1>3. <<Bpl(s), Bmi(s), Bvc(s), Bvs(s), Bcc(s), Bcs(s), Bne(s), Beq(s)>> = Conditions(s)
  BY <1>2, Zenon DEF Bpl, Bmi, Bvc, Bvs, Bcc, Bcs, Bne, Beq, Conditions
<1> QED BY <1>1, <1>3

LEMMA ComputesNow == AluTypeOK => ComputesAsFirst
<1> SUFFICES ASSUME machine \in Machines PROVE ComputesAsFirst BY DEF AluTypeOK, Machines
<1> QED
  BY FirstSums, FirstLogic, FirstComparisons, FirstShifts, FirstCounts, FirstShiftsOfA, FirstMoves,
     FirstUndocumented, FirstCombined, FirstFlags, Zenon DEF ComputesAsFirst

-----------------------------------------------------------------------------
(* Numbers of two bytes. *)

LEMMA SignedIs ==
  ASSUME NEW b \in Byte
  PROVE  /\ Signed(b) \in Int /\ -Half <= Signed(b) /\ Signed(b) < Half
         /\ Negative(b) <=> Signed(b) < 0
         /\ Signed(b) = IF Negative(b) THEN b - B ELSE b
         /\ Signed(BitNot(b)) = -Signed(b) - 1
<1>1. b \in Nat /\ b < B /\ B \in Nat /\ Half \in Nat /\ 2 * Half = B BY ByteSize, SizeFacts
<1> QED BY <1>1 DEF Signed, Negative, BitNot

\* What the overflow and the sign of a sum say of the sum of the signed bytes.
LEMMA SumSign ==
  ASSUME NEW p \in Byte, NEW q \in Byte, NEW c \in Flag
  PROVE  LET k == Signed(p) + Signed(q) + c
             r == (p + q + c) % B
         IN  /\ Overflows(p, q, r) <=> ~(-Half <= k /\ k < Half)
             /\ (Negative(r) # Overflows(p, q, r)) <=> k < 0
<1> DEFINE k == Signed(p) + Signed(q) + c
           r == (p + q + c) % B
<1>1. r \in Byte BY ByteOperators
<1>2. /\ p \in Nat /\ p < B /\ q \in Nat /\ q < B /\ c \in {0, 1}
      /\ B \in Nat /\ Half \in Nat /\ 2 * Half = B
  BY ByteSize, SizeFacts DEF Flag
<1>3. r = IF p + q + c < B THEN p + q + c ELSE p + q + c - B BY <1>2, Wraps
<1>4. Overflows(p, q, r) <=> (Negative(p) <=> ~Negative(r)) /\ (Negative(q) <=> ~Negative(r))
  BY <1>1, OverflowIs
<1>5. Overflows(p, q, r) \in BOOLEAN /\ Negative(r) \in BOOLEAN BY DEF Overflows, Negative
<1>6. k = (IF p >= Half THEN p - B ELSE p) + (IF q >= Half THEN q - B ELSE q) + c
  BY DEF Signed, Negative
<1> HIDE DEF k, r
<1>7. r \in Nat BY <1>1, ByteSize
<1>8. Overflows(p, q, r) <=> (p >= Half <=> ~(r >= Half)) /\ (q >= Half <=> ~(r >= Half))
  BY <1>4 DEF Negative
<1>9. (p >= Half <=> ~(r >= Half)) /\ (q >= Half <=> ~(r >= Half)) <=> ~(-Half <= k /\ k < Half)
  BY <1>2, <1>3, <1>6, <1>7
<1>10. (r >= Half <=> -Half <= k /\ k < Half) <=> k < 0
  BY <1>2, <1>3, <1>6, <1>7
<1>11. Negative(r) <=> r >= Half BY DEF Negative
<1>12. (Negative(r) # Overflows(p, q, r)) <=> k < 0 BY <1>5, <1>8, <1>9, <1>10, <1>11
<1> QED BY <1>8, <1>9, <1>12 DEF k, r

LEMMA FitsWord ==
  ASSUME NEW l \in Byte, NEW k \in Int
  PROVE  /\ (-Words <= 2 * (l + B * k) /\ 2 * (l + B * k) < Words) <=> (-Half <= k /\ k < Half)
         /\ l + B * k < 0 <=> k < 0
<1>1. l \in Nat /\ l < B BY ByteSize
<1> QED BY <1>1, SizeAssumption, Z3 DEF Words, Half

LEMMA RotatesBack ==
  ASSUME NEW b \in Byte, NEW c \in Flag
  PROVE  /\ Right(Left(b) + c) + Set(Negative(b)) * Half = b
         /\ (Left(b) + c) % 2 = c
         /\ Left(b) = 2 * b - B * Set(Negative(b))
         /\ 2 * Right(b) + (b % 2) = b
<1>1. b \in Nat /\ b < B /\ c \in {0, 1} BY ByteSize DEF Flag
<1> QED BY <1>1, SizeAssumption, Z3 DEF Right, Left, Set, Negative, Half

LEMMA ShiftsWide ==
  ASSUME NEW s \in Machines, machine = s
  PROVE  WideShifts
<1>1. s.a \in Byte /\ s.m \in Byte /\ s.c \in Flag BY DEF Machines
<1> DEFINE P == Word(s.m, s.a)
           doubled == RolA(Asl(s))
           halved == Ror(LsrA(s))
           lowCarry == Set(Negative(s.m))
           highCarry == Set(Negative(s.a))
<1>2. /\ s.a \in Int /\ s.m \in Int /\ s.c \in Int /\ lowCarry \in Flag /\ highCarry \in Flag
      /\ lowCarry \in {0, 1} /\ highCarry \in {0, 1} /\ s.c \in {0, 1} /\ B \in Int
  BY <1>1, ByteSize, SizeFacts DEF Set, Flag
<1>3. Word(doubled.m, doubled.a) + Words * doubled.c = 2 * P
  <2>1. doubled.m = Left(s.m) /\ doubled.a = Left(s.a) + lowCarry /\ doubled.c = highCarry
    BY DEF RolA, Asl, SetNZ, LeftCarry, Machines
  <2>2. Left(s.m) = 2 * s.m - B * lowCarry /\ Left(s.a) = 2 * s.a - B * highCarry
    BY <1>1, RotatesBack
  <2> HIDE DEF doubled, lowCarry, highCarry
  <2>3. \A m, a, j, k \in Int :
           ((2 * m - B * j) + B * ((2 * a - B * k) + j)) + (B * B) * k = 2 * (m + B * a)
    BY SizeAssumption, Z3
  <2>4. lowCarry \in Int /\ highCarry \in Int BY <1>2
  <2> QED BY <1>2, <2>1, <2>2, <2>3, <2>4 DEF Word, Words
<1>4. 2 * Word(halved.m, halved.a) + halved.c = P
  <2> DEFINE bottom == s.a % 2
  <2>1. halved.m = Right(s.m) + bottom * Half /\ halved.a = Right(s.a) /\ halved.c = s.m % 2
    BY DEF Ror, LsrA, SetNZ, RightCarry, Machines
  <2>2. s.a = 2 * Right(s.a) + bottom /\ s.m = 2 * Right(s.m) + (s.m % 2) BY <1>1, RotatesBack DEF Flag
  <2>3. /\ Right(s.a) \in Byte /\ Right(s.m) \in Byte /\ bottom \in Flag /\ s.m % 2 \in Flag
    BY <1>1, ByteOperators
  <2>4. /\ Right(s.a) \in Int /\ Right(s.m) \in Int /\ bottom \in {0, 1} /\ s.m % 2 \in Int
    BY <2>3, ByteSize DEF Flag
  <2>5. bottom * Half = IF bottom = 1 THEN Half ELSE 0 BY <2>4, SizeFacts
  <2>6. \A h, j, k \in Int : 2 * ((k + h) + B * j) = 2 * k + 2 * h + B * (2 * j)
    BY SizeAssumption, Z3
  <2>7. \A j, k \in Int : B * (2 * j + k) = B * (2 * j) + B * k BY SizeAssumption, Z3
  <2> HIDE DEF halved, bottom
  <2>8. B * s.a = B * (2 * Right(s.a)) + B * bottom /\ B * (2 * Right(s.a)) \in Int
    BY <2>2, <2>4, <2>7, SizeFacts
  <2>9. 2 * (bottom * Half) = B * bottom /\ bottom * Half \in Int BY <2>4, <2>5, SizeFacts
  <2>10. 2 * ((Right(s.m) + bottom * Half) + B * Right(s.a))
           = 2 * Right(s.m) + 2 * (bottom * Half) + B * (2 * Right(s.a))
    BY <2>4, <2>6, <2>9
  <2> QED BY <1>2, <2>1, <2>2, <2>4, <2>8, <2>9, <2>10 DEF Word
<1>5. [Ror(RorA(RolA(Rol(s)))) EXCEPT !.z = s.z, !.n = s.n] = s
  <2> DEFINE one == Rol(s)
             two == RolA(one)
             three == RorA(two)
             four == Ror(three)
  <2>1. /\ one.m = Left(s.m) + s.c /\ one.c = lowCarry /\ one.a = s.a /\ one \in Machines
        /\ one.x = s.x /\ one.y = s.y /\ one.v = s.v
    BY ShiftsType DEF Rol, SetNZ, Machines, Shifts
  <2> HIDE DEF one
  <2>2. /\ two.a = Left(s.a) + lowCarry /\ two.c = highCarry /\ two.m = one.m /\ two \in Machines
        /\ two.x = s.x /\ two.y = s.y /\ two.v = s.v
    BY <2>1, ShiftsType DEF RolA, SetNZ, Machines, Shifts
  <2> HIDE DEF two
  <2>3. /\ three.a = Right(two.a) + two.c * Half /\ three.c = two.a % 2 /\ three.m = one.m
        /\ three \in Machines /\ three.x = s.x /\ three.y = s.y /\ three.v = s.v
    BY <2>2, ShiftsType DEF RorA, SetNZ, Machines, Shifts
  <2>4. three.a = s.a /\ three.c = lowCarry
    <3> HIDE DEF three
    <3> QED BY <1>1, <1>2, <2>2, <2>3, RotatesBack
  <2> HIDE DEF three
  <2>5. /\ four.m = Right(three.m) + three.c * Half /\ four.c = three.m % 2 /\ four.a = s.a
        /\ four \in Machines /\ four.x = s.x /\ four.y = s.y /\ four.v = s.v
    BY <2>3, <2>4, ShiftsType DEF Ror, SetNZ, Machines, Shifts
  <2>6. four.m = s.m /\ four.c = s.c
    <3> HIDE DEF four
    <3> QED BY <1>1, <2>1, <2>3, <2>4, <2>5, RotatesBack
  <2> HIDE DEF four
  <2>7. [four EXCEPT !.z = s.z, !.n = s.n] = s BY <2>5, <2>6 DEF Machines
  <2> QED BY <2>7 DEF one, two, three, four
<1> QED BY <1>3, <1>4, <1>5 DEF WideShifts

\* The sum of two high bytes, as the low bytes left the carry.
LEMMA SumSigns ==
  ASSUME NEW s \in Machines
  PROVE  Adc(s).v <=> ~(-Half <= Signed(s.a) + Signed(s.m) + s.c /\ Signed(s.a) + Signed(s.m) + s.c < Half)
<1>1. s.a \in Byte /\ s.m \in Byte /\ s.c \in Flag BY DEF Machines
<1>2. Adc(s).v = Overflows(s.a, s.m, (s.a + s.m + s.c) % B) BY DEF Adc, SetNZ, Machines
<1> QED BY <1>1, <1>2, SumSign

LEMMA DifferenceSigns ==
  ASSUME NEW s \in Machines
  PROVE  LET k == Signed(s.a) - Signed(s.m) - (1 - s.c)
         IN  /\ Sbc(s).v <=> ~(-Half <= k /\ k < Half)
             /\ (Sbc(s).n # Sbc(s).v) <=> k < 0
<1> DEFINE q == BitNot(s.m)
           r == (s.a + q + s.c) % B
<1>1. s.a \in Byte /\ s.m \in Byte /\ s.c \in Flag BY DEF Machines
<1>2. q \in Byte BY <1>1, ByteOperators
<1>3. Signed(s.a) + Signed(q) + s.c = Signed(s.a) - Signed(s.m) - (1 - s.c)
  BY <1>1, SignedIs DEF Flag
<1>4. Sbc(s).v = Overflows(s.a, q, r) /\ Sbc(s).n = Negative(r) BY DEF Sbc, SetNZ, Machines
<1> HIDE DEF q
<1> QED BY <1>1, <1>2, <1>3, <1>4, SumSign

LEMMA SumsWide ==
  ASSUME NEW s \in Machines, machine = s
  PROVE  WideSums
<1> SUFFICES ASSUME NEW high \in Byte
    PROVE  LET sum == Adc(Clc(s))
               difference == Sbc(Sec(s))
               P == Word(s.a, s.y)
               SP == SignedWord(s.a, s.y)
               Fits(k) == -Words <= 2 * k /\ 2 * k < Words
               Q == Word(s.m, high)
               SQ == SignedWord(s.m, high)
               sumHigh == Adc(With(Tya(sum), high))
               differenceHigh == Sbc(With(Tya(difference), high))
               comparedHigh == Sbc(With(Tya(Cmp(s)), high))
           IN  /\ Word(sum.a, sumHigh.a) + Words * sumHigh.c = P + Q
               /\ Bvs(sumHigh) <=> ~Fits(SP + SQ)
               /\ Word(difference.a, differenceHigh.a) = P - Q + Words * (1 - differenceHigh.c)
               /\ Bvs(differenceHigh) <=> ~Fits(SP - SQ)
               /\ Bcs(comparedHigh) <=> P >= Q
               /\ (Bmi(comparedHigh) # Bvs(comparedHigh)) <=> SP < SQ
  BY Zenon DEF WideSums
<1> DEFINE sum == Adc(Clc(s))
           difference == Sbc(Sec(s))
           P == Word(s.a, s.y)
           SP == SignedWord(s.a, s.y)
           Fits(k) == -Words <= 2 * k /\ 2 * k < Words
           Q == Word(s.m, high)
           SQ == SignedWord(s.m, high)
           second == With(Tya(sum), high)
           secondD == With(Tya(difference), high)
           secondC == With(Tya(Cmp(s)), high)
           sumHigh == Adc(second)
           differenceHigh == Sbc(secondD)
           comparedHigh == Sbc(secondC)
<1>1. s.a \in Byte /\ s.m \in Byte /\ s.y \in Byte /\ s.c \in Flag BY DEF Machines
<1>2. /\ s.a \in Int /\ s.m \in Int /\ s.y \in Int /\ high \in Int /\ B \in Int
      /\ Signed(s.y) \in Int /\ Signed(high) \in Int
  BY <1>1, ByteSize, SizeFacts, SignedIs
<1>3. \A k, j, l \in Int : B * (k + j + l) = B * k + B * j + B * l /\ B * (k - j - l) = B * k - B * j - B * l
  BY SizeAssumption, Z3
<1>4. Word(sum.a, sumHigh.a) + Words * sumHigh.c = P + Q BY WordSum
<1>5. Bvs(sumHigh) <=> ~Fits(SP + SQ)
  <2> DEFINE k == Signed(s.y) + Signed(high) + sum.c
  <2>1. Clc(s) \in Machines /\ Clc(s).a = s.a /\ Clc(s).m = s.m /\ Clc(s).c = 0 /\ Clc(s).y = s.y
    BY DEF Clc, Machines, Flag
  <2>2. sum \in Machines /\ sum.y = s.y BY <2>1, SumState
  <2>3. sum.a \in Byte /\ sum.c \in {0, 1} /\ sum.a + B * sum.c = s.a + s.m
    BY <1>2, <2>1, ByteSum DEF Flag
  <2>4. second \in Machines /\ second.a = s.y /\ second.m = high /\ second.c = sum.c
    BY <2>2, HighByte
  <2>5. sumHigh.v <=> ~(-Half <= k /\ k < Half) BY <2>4, SumSigns
  <2> HIDE DEF sum
  <2>6. k \in Int /\ SP + SQ = sum.a + B * k
    <3> DEFINE c == sum.c
    <3>1. c \in Int /\ sum.a \in Int BY <2>3, ByteSize
    <3> HIDE DEF c
    <3>2. B * k = B * Signed(s.y) + B * Signed(high) + B * c BY <1>2, <1>3, <3>1 DEF c
    <3>3. /\ B * Signed(s.y) \in Int /\ B * Signed(high) \in Int /\ B * c \in Int BY <1>2, <3>1
    <3>4. sum.a + B * c = s.a + s.m BY <2>3 DEF c
    <3>5. k \in Int BY <1>2, <3>1 DEF c
    <3> QED BY <1>2, <3>1, <3>2, <3>3, <3>4, <3>5 DEF SignedWord
  <2> HIDE DEF k, SP, SQ
  <2>7. Fits(SP + SQ) <=> -Half <= k /\ k < Half BY <2>3, <2>6, FitsWord
  <2> QED BY <2>5, <2>7 DEF Bvs
<1>6. /\ Word(difference.a, differenceHigh.a) = P - Q + Words * (1 - differenceHigh.c)
      /\ Bcs(differenceHigh) <=> P >= Q
  BY WordDifference
<1>7. /\ Bvs(differenceHigh) <=> ~Fits(SP - SQ)
      /\ (Bmi(differenceHigh) # Bvs(differenceHigh)) <=> SP < SQ
  <2> DEFINE k == Signed(s.y) - Signed(high) - (1 - difference.c)
  <2>1. Sec(s) \in Machines /\ Sec(s).a = s.a /\ Sec(s).m = s.m /\ Sec(s).c = 1 /\ Sec(s).y = s.y
    BY DEF Sec, Machines, Flag
  <2>2. difference \in Machines /\ difference.y = s.y BY <2>1, DifferenceState
  <2>3. difference.a \in Byte /\ difference.c \in {0, 1}
        /\ difference.a = s.a - s.m + B * (1 - difference.c)
    BY <1>2, <2>1, ByteDifference DEF Flag
  <2>4. secondD \in Machines /\ secondD.a = s.y /\ secondD.m = high /\ secondD.c = difference.c
    BY <2>2, HighByte
  <2>5. /\ differenceHigh.v <=> ~(-Half <= k /\ k < Half)
        /\ (differenceHigh.n # differenceHigh.v) <=> k < 0
    BY <2>4, DifferenceSigns
  <2> HIDE DEF difference
  <2>6. k \in Int /\ SP - SQ = difference.a + B * k
    <3> DEFINE c == 1 - difference.c
    <3>1. c \in Int /\ difference.a \in Int BY <2>3, ByteSize
    <3> HIDE DEF c
    <3>2. B * k = B * Signed(s.y) - B * Signed(high) - B * c BY <1>2, <1>3, <3>1 DEF c
    <3>3. /\ B * Signed(s.y) \in Int /\ B * Signed(high) \in Int /\ B * c \in Int BY <1>2, <3>1
    <3>4. difference.a = s.a - s.m + B * c BY <2>3 DEF c
    <3>5. k \in Int BY <1>2, <3>1 DEF c
    <3> QED BY <1>2, <3>1, <3>2, <3>3, <3>4, <3>5 DEF SignedWord
  <2>7. SP \in Int /\ SQ \in Int BY <1>2 DEF SignedWord
  <2> HIDE DEF k, SP, SQ
  <2>8. (Fits(SP - SQ) <=> -Half <= k /\ k < Half) /\ (SP - SQ < 0 <=> k < 0)
    BY <2>3, <2>6, FitsWord
  <2>9. SP < SQ <=> k < 0 BY <2>7, <2>8
  <2> QED BY <2>5, <2>8, <2>9 DEF Bvs, Bmi
<1>8. /\ comparedHigh.c = differenceHigh.c /\ comparedHigh.n = differenceHigh.n
      /\ comparedHigh.v = differenceHigh.v
  <2>1. Cmp(s) \in Machines /\ Cmp(s).y = s.y /\ Cmp(s).c = Set(s.a >= s.m)
    BY SumsType DEF Cmp, SetNZ, Machines, Sums
  <2>2. Sec(s) \in Machines /\ Sec(s).y = s.y /\ Sec(s).a = s.a /\ Sec(s).m = s.m /\ Sec(s).c = 1
    BY DEF Sec, Machines, Flag
  <2>3. difference \in Machines /\ difference.y = s.y BY <2>2, DifferenceState
  <2>4. difference.c = Set(s.a >= s.m)
    <3>1. difference.c = Set(s.a + (B - 1 - s.m) + 1 > B - 1) BY <2>2 DEF Sbc, SetNZ, Machines, BitNot
    <3>2. s.a + (B - 1 - s.m) + 1 > B - 1 <=> s.a >= s.m BY <1>2
    <3> QED BY <3>1, <3>2 DEF Set
  <2>5. /\ secondD \in Machines /\ secondD.a = s.y /\ secondD.m = high /\ secondD.c = Set(s.a >= s.m)
        /\ secondC \in Machines /\ secondC.a = s.y /\ secondC.m = high /\ secondC.c = Set(s.a >= s.m)
    BY <2>1, <2>3, <2>4, HighByte
  <2> HIDE DEF secondD, secondC
  <2> QED BY <2>5 DEF Sbc, SetNZ, Machines
<1> HIDE DEF differenceHigh, comparedHigh, sumHigh, sum, difference, P, Q, SP, SQ, Fits
<1>9. /\ Bcs(comparedHigh) <=> P >= Q
      /\ (Bmi(comparedHigh) # Bvs(comparedHigh)) <=> SP < SQ
  BY <1>6, <1>7, <1>8 DEF Bcs, Bmi, Bvs
<1> QED
  BY <1>4, <1>5, <1>6, <1>7, <1>9, Zenon
  DEF differenceHigh, comparedHigh, sumHigh, second, secondD, secondC, sum, difference, P, Q, SP, SQ, Fits

\* Two-byte sums, differences, comparisons and shifts made of one-byte instructions are right in
\* every state that a program reaches.
THEOREM WideIsRight == AluSpec => []WideArithmetic
<1>1. AluTypeOK => WideArithmetic
  <2> SUFFICES ASSUME machine \in Machines PROVE WideArithmetic BY DEF AluTypeOK, Machines
  <2> QED BY SumsWide, ShiftsWide DEF WideArithmetic
<1> QED BY <1>1, AluTypes, PTL

\* Both CPUs compute the same, type by type.
THEOREM ComputesTheSame == AluSpec => []ComputesAsFirst
BY ComputesNow, AluTypes, PTL

(***************************************************************************)
(* The cycles of the instructions: the new CPU ticks an addressing mode    *)
(* and an instruction type, the first CPU runs the opcode at once and      *)
(* counts its cycles by a table.  The inductive invariant, BusInv below,   *)
(* says after every cycle how far mode and type are and what the bytes     *)
(* read so far have put into the target, the pc and the stack pointer.     *)
(* This part is what an addressing mode knows after each of its ticks.     *)
(***************************************************************************)
Bus == {"R", "W"} \X Int \X Int
Ins == [op : Int, from : Int, sp : Int, index : Int, mask : Int, ac : Int, pointer : Int, base : Int,
        addr : Int, crossed : BOOLEAN, ic : Int, taken : BOOLEAN, far : BOOLEAN, word : Int]
Moment == [pc : Int, sp : Int, i : Ins, io : Seq(Bus)]

LEMMA BytesAre ==
  /\ B \in Int /\ B >= 4 /\ B * B \in Int /\ B * B >= 16 /\ Byte \subseteq Int
  /\ \A a, n \in Int : Plus(a, n) \in Int /\ Low(a) \in Int /\ Page(a) \in Int /\ B * a \in Int
BY SizeAssumption, Z3 DEF Byte, Plus, Low, Page

LEMMA PlusPlus == \A a, m, n \in Int : Plus(Plus(a, m), n) = Plus(a, m + n)
BY SizeAssumption, Z3 DEF Plus

LEMMA PlusOne == \A a, m \in Int : Plus(Plus(a, m), 1) = Plus(a, m + 1)
BY PlusPlus

LEMMA AlsoIs ==
  ASSUME NEW s \in Moment, NEW x \in Bus
  PROVE  /\ Also(s, x) \in Moment
         /\ Also(s, x).pc = s.pc /\ Also(s, x).sp = s.sp /\ Also(s, x).i = s.i
         /\ Also(s, x).io = Append(s.io, x)
BY DEF Also, Moment

LEMMA AdvanceIs ==
  ASSUME NEW s \in Moment
  PROVE  /\ Advance(s) \in Moment
         /\ Advance(s).pc = Plus(s.pc, 1) /\ Advance(s).sp = s.sp /\ Advance(s).i = s.i
         /\ Advance(s).io = s.io
<1>1. s.pc \in Int /\ Plus(s.pc, 1) \in Int BY BytesAre DEF Moment
<1> QED BY <1>1 DEF Advance, Moment

LEMMA AcUpdate == \A i \in Ins : \A n \in Int : [i EXCEPT !.ac = n] \in Ins
BY DEF Ins
LEMMA AddrUpdate == \A i \in Ins : \A n \in Int : [i EXCEPT !.addr = n] \in Ins
BY DEF Ins

LEMMA AcDoneIs ==
  ASSUME NEW s \in Moment
  PROVE  /\ AcDone(s) \in Moment
         /\ AcDone(s).pc = s.pc /\ AcDone(s).sp = s.sp /\ AcDone(s).io = s.io
         /\ AcDone(s).i = [s.i EXCEPT !.ac = s.i.ac + 1]
<1>1. s.i \in Ins /\ s.i.ac + 1 \in Int BY DEF Moment, Ins
<1>2. [s.i EXCEPT !.ac = s.i.ac + 1] \in Ins BY <1>1, AcUpdate
<1>3. AcDone(s) = [s EXCEPT !.i = [s.i EXCEPT !.ac = s.i.ac + 1]] BY DEF AcDone
<1> QED BY <1>1, <1>2, <1>3 DEF Moment

LEMMA ReadIs == \A a, b \in Int : Read(a, b) \in Bus /\ Peek(a) \in Bus /\ Write(a, b) \in Bus
BY DEF Read, Peek, Write, Bus

LEMMA OperandIs ==
  ASSUME NEW s \in Moment, NEW b \in Int
  PROVE  /\ Operand(s, b) \in Moment
         /\ Operand(s, b).pc = Plus(s.pc, 1) /\ Operand(s, b).sp = s.sp /\ Operand(s, b).i = s.i
         /\ Operand(s, b).io = Append(s.io, Read(s.pc, b))
<1>1. s.pc \in Int /\ Read(s.pc, b) \in Bus BY ReadIs DEF Moment
<1> QED BY <1>1, AlsoIs, AdvanceIs DEF Operand

LEMMA FetchLowIs ==
  ASSUME NEW s \in Moment, NEW b \in Int
  PROVE  /\ FetchLow(s, b) \in Moment
         /\ FetchLow(s, b).pc = Plus(s.pc, 1) /\ FetchLow(s, b).sp = s.sp
         /\ FetchLow(s, b).i = [s.i EXCEPT !.addr = b]
         /\ FetchLow(s, b).io = Append(s.io, Read(s.pc, b))
<1> DEFINE t == Operand(s, b)
<1>1. t \in Moment /\ t.pc = Plus(s.pc, 1) /\ t.sp = s.sp /\ t.i = s.i /\ t.io = Append(s.io, Read(s.pc, b))
  BY OperandIs
<1>2. FetchLow(s, b) = [t EXCEPT !.i.addr = b] BY DEF FetchLow
<1> HIDE DEF t
<1>3. [s.i EXCEPT !.addr = b] \in Ins BY AddrUpdate DEF Moment
<1> QED BY <1>1, <1>2, <1>3 DEF Moment

LEMMA FetchHighIs ==
  ASSUME NEW s \in Moment, NEW b \in Int
  PROVE  /\ FetchHigh(s, b) \in Moment
         /\ FetchHigh(s, b).pc = Plus(s.pc, 1) /\ FetchHigh(s, b).sp = s.sp
         /\ FetchHigh(s, b).i = [s.i EXCEPT !.addr = s.i.addr + B * b]
         /\ FetchHigh(s, b).io = Append(s.io, Read(s.pc, b))
<1> DEFINE t == Operand(s, b)
<1>1. t \in Moment /\ t.pc = Plus(s.pc, 1) /\ t.sp = s.sp /\ t.i = s.i /\ t.io = Append(s.io, Read(s.pc, b))
  BY OperandIs
<1>2. FetchHigh(s, b) = [t EXCEPT !.i.addr = t.i.addr + B * b] BY DEF FetchHigh
<1>3. s.i \in Ins /\ s.i.addr + B * b \in Int BY BytesAre DEF Moment, Ins
<1>4. [s.i EXCEPT !.addr = s.i.addr + B * b] \in Ins BY <1>3, AddrUpdate
<1> HIDE DEF t
<1> QED BY <1>1, <1>2, <1>4 DEF Moment

\* The state after an access that decides nothing.
Quiet(t, s) == t \in Moment /\ t.pc = s.pc /\ t.sp = s.sp /\ t.i = s.i

LEMMA ReadsAreQuiet ==
  ASSUME NEW s \in Moment
  PROVE  Quiet(ReadTarget(s), s) /\ Quiet(ReadIndexed(s), s)
<1>1. s.i \in Ins /\ s.i.addr \in Int BY DEF Moment, Ins
<1>2. Uncarried(s) \in Int
  <2>1. s.i.base \in Int BY <1>1 DEF Ins
  <2>2. Page(s.i.base) \in Int /\ Low(s.i.addr) \in Int BY <1>1, <2>1, BytesAre
  <2>3. B * Page(s.i.base) \in Int BY <2>2, BytesAre
  <2> QED BY <2>2, <2>3 DEF Uncarried
<1>3. \A a \in Int : Quiet(Also(s, Peek(a)), s) BY AlsoIs, ReadIs DEF Quiet
<1>4. Quiet(s, s) BY DEF Quiet
<1>5. Quiet(ReadTarget(s), s) BY <1>1, <1>3, <1>4 DEF ReadTarget
<1>6. Quiet(ReadIndexed(s), s) BY <1>2, <1>3, <1>5 DEF ReadIndexed
<1> QED BY <1>5, <1>6

Crossing(base, index) == Page(Plus(base, index)) # Page(base)

LEMMA IndexedUpdate ==
  \A i \in Ins : \A n, m \in Int : \A p \in BOOLEAN :
    [i EXCEPT !.base = n, !.addr = m, !.crossed = p] \in Ins
BY DEF Ins

LEMMA IndexedIs ==
  ASSUME NEW s \in Moment, NEW base \in Int
  PROVE  /\ Indexed(s, base) \in Moment
         /\ Indexed(s, base).pc = s.pc /\ Indexed(s, base).sp = s.sp /\ Indexed(s, base).io = s.io
         /\ Indexed(s, base).i = [s.i EXCEPT !.base = base, !.addr = Plus(base, s.i.index),
                                             !.crossed = Crossing(base, s.i.index)]
<1> DEFINE j == [s.i EXCEPT !.base = base, !.addr = Plus(base, s.i.index),
                            !.crossed = Crossing(base, s.i.index)]
<1>1. s.i \in Ins /\ Plus(base, s.i.index) \in Int /\ Crossing(base, s.i.index) \in BOOLEAN
  BY BytesAre DEF Moment, Ins, Crossing
<1>2. j \in Ins BY <1>1, IndexedUpdate
<1>3. Indexed(s, base) = [s EXCEPT !.i = j]
  <2> DEFINE a == Plus(base, s.i.index)
             p == Crossing(base, s.i.index)
  <2>1. Indexed(s, base) = [s EXCEPT !.i.base = base, !.i.addr = a, !.i.crossed = p]
    BY DEF Indexed, Crossing
  <2> HIDE DEF a, p
  <2>2. [s EXCEPT !.i.base = base, !.i.addr = a, !.i.crossed = p]
          = [s EXCEPT !.i = [s.i EXCEPT !.base = base, !.addr = a, !.crossed = p]]
    BY DEF Moment
  <2> QED BY <2>1, <2>2 DEF a, p
<1> HIDE DEF j
<1>4. Indexed(s, base).i = j BY <1>3 DEF Moment
<1>5. /\ Indexed(s, base) \in Moment
      /\ Indexed(s, base).pc = s.pc /\ Indexed(s, base).sp = s.sp /\ Indexed(s, base).io = s.io
  BY <1>2, <1>3 DEF Moment
<1> QED BY <1>4, <1>5 DEF j

LEMMA ModeTickIs ==
  ASSUME NEW s, NEW b
  PROVE  /\ Mode(s.i.op) = "imm" => ModeTick(s, b) = ImmediateTick(s, b)
         /\ Mode(s.i.op) = "zp" => ModeTick(s, b) = ZeroPageTick(s, b)
         /\ Mode(s.i.op) = "zpx" => ModeTick(s, b) = ZeroPageXTick(s, b)
         /\ Mode(s.i.op) = "zpy" => ModeTick(s, b) = ZeroPageYTick(s, b)
         /\ Mode(s.i.op) = "abs" => ModeTick(s, b) = AbsoluteTick(s, b)
         /\ Mode(s.i.op) = "absx" => ModeTick(s, b) = AbsoluteXTick(s, b)
         /\ Mode(s.i.op) = "absy" => ModeTick(s, b) = AbsoluteYTick(s, b)
         /\ Mode(s.i.op) = "ind" => ModeTick(s, b) = IndirectTick(s, b)
         /\ Mode(s.i.op) = "indx" => ModeTick(s, b) = IndexedIndirectTick(s, b)
         /\ Mode(s.i.op) = "indy" => ModeTick(s, b) = IndirectIndexedTick(s, b)
         /\ Mode(s.i.op) = "rel" => ModeTick(s, b) = RelativeTick(s, b)
BY DEF ModeTick

LEMMA ModeDoneIs ==
  ASSUME NEW s
  PROVE  /\ Mode(s.i.op) = "imp" => ModeDone(s)
         /\ Mode(s.i.op) \in {"imm", "rel"} => (ModeDone(s) <=> s.i.ac = 1)
         /\ Mode(s.i.op) = "zp" => (ModeDone(s) <=> s.i.ac = 2)
         /\ Mode(s.i.op) \in {"zpx", "zpy"} => (ModeDone(s) <=> s.i.ac = 3)
         /\ Mode(s.i.op) = "abs" => (ModeDone(s) <=> AbsoluteDone(s))
         /\ Mode(s.i.op) \in {"absx", "absy"} => (ModeDone(s) <=> IndexedDone(s, 3))
         /\ Mode(s.i.op) = "ind" => (ModeDone(s) <=> s.i.ac = 4)
         /\ Mode(s.i.op) = "indx" => (ModeDone(s) <=> s.i.ac = 5)
         /\ Mode(s.i.op) = "indy" => (ModeDone(s) <=> IndexedDone(s, 4))
BY DEF ModeDone, ImpliedDone

Modes == {"imp", "imm", "rel", "zp", "zpx", "zpy", "abs", "absx", "absy", "ind", "indx", "indy"}

-----------------------------------------------------------------------------
(* How far an addressing mode is. *)

\* The ticks it takes.
ModeCycles(i) ==
  LET m == Mode(i.op)
      short == Access(i.op) = "R" /\ ~i.crossed
  IN  IF m = "imp" THEN 0 ELSE IF m \in {"imm", "rel"} THEN 1 ELSE IF m = "zp" THEN 2
      ELSE IF m \in {"zpx", "zpy"} THEN 3 ELSE IF m = "abs" THEN IF Access(i.op) = "J" THEN 2 ELSE 3
      ELSE IF m \in {"absx", "absy"} THEN IF short THEN 3 ELSE 4
      ELSE IF m = "ind" THEN 4 ELSE IF m = "indx" THEN 5 ELSE IF short THEN 4 ELSE 5

\* The bytes of the program it has read after k ticks.
OperandsRead(o, k) ==
  IF Mode(o) \in {"abs", "absx", "absy", "ind"} THEN IF k >= 2 THEN 2 ELSE k
  ELSE IF k >= 1 THEN 1 ELSE 0

\* What it then knows of the target, from the bytes read in the cycles t of its trace.
ReadIn(t, c) == t[c][1][3]
WordIn(t, c) == ReadIn(t, c) + B * ReadIn(t, c + 1)
Located(i, k, t) ==
  LET m == Mode(i.op)
      indexed == i.base = WordIn(t, IF m = "indy" THEN 3 ELSE 2)
                 /\ i.addr = Plus(i.base, i.index) /\ i.crossed = Crossing(i.base, i.index)
  IN  /\ m \in {"abs", "absx", "absy"} /\ k = 1 => i.addr = ReadIn(t, 2)
      /\ m = "abs" /\ k >= 2 => i.addr = WordIn(t, 2)
      /\ m \in {"absx", "absy"} /\ k >= 2 => indexed
      /\ m = "indy" /\ k = 2 => i.base = ReadIn(t, 3)
      /\ m = "indy" /\ k = 3 => i.base = WordIn(t, 3)
      /\ m = "indy" /\ k >= 4 => indexed
      /\ m = "ind" /\ k = 3 => i.addr = ReadIn(t, 4)
      /\ m = "ind" /\ k >= 4 => i.addr = WordIn(t, 4)
      /\ m = "rel" /\ k >= 1 => i.addr = Plus(Plus(i.from, 2), B * B + Signed(ReadIn(t, 2)))

InMode(i, k, t) == k \in 0 .. ModeCycles(i) /\ Located(i, k, t)

\* A cycle is added to a trace, and begins with the accesses io.
Extends(u, t, io) ==
  /\ Len(t) \in Nat /\ Len(u) = Len(t) + 1
  /\ \A c \in 1 .. Len(t) : u[c] = t[c]
  /\ io # <<>> => u[Len(t) + 1][1] = io[1]

\* What a mode leaves alone.
Same(i, j) == /\ i.op = j.op /\ i.from = j.from /\ i.sp = j.sp /\ i.index = j.index /\ i.mask = j.mask
              /\ i.ic = j.ic /\ i.taken = j.taken /\ i.far = j.far /\ i.word = j.word

\* One tick of a mode but for its count: s before, n after it.
Ticked(n, s, u) ==
  /\ n \in Moment /\ n.sp = s.sp /\ Same(n.i, s.i) /\ n.i.ac = s.i.ac
  /\ n.pc = Plus(s.i.from, 1 + OperandsRead(s.i.op, s.i.ac + 1))
  /\ InMode(n.i, s.i.ac + 1, u)

Ticking(s, t) ==
  /\ s \in Moment /\ s.io = <<>> /\ InMode(s.i, s.i.ac, t) /\ ~ModeDone(s)
  /\ Len(t) = s.i.ac + 1 /\ s.pc = Plus(s.i.from, 1 + OperandsRead(s.i.op, s.i.ac))

LEMMA FirstAccess == \A x \in Bus : Append(<<>>, x) # <<>> /\ Append(<<>>, x)[1] = x
OBVIOUS

LEMMA TickingIs ==
  ASSUME NEW s, NEW t, Ticking(s, t)
  PROVE  /\ s \in Moment /\ s.io = <<>> /\ s.i \in Ins /\ s.pc \in Int /\ s.sp \in Int
         /\ s.i.from \in Int /\ s.i.ac \in Nat /\ s.i.addr \in Int /\ s.i.base \in Int /\ s.i.index \in Int
BY DEF Ticking, Moment, Ins, InMode

\* A byte of the program is read in this cycle.
LEMMA FetchedIn ==
  ASSUME NEW s, NEW t, NEW u, NEW b \in Int, NEW a \in Int, Ticking(s, t),
         Extends(u, t, Append(s.io, Read(a, b)))
  PROVE  ReadIn(u, s.i.ac + 2) = b
<1>1. s.io = <<>> /\ Read(a, b) \in Bus BY TickingIs, ReadIs
<1>2. Append(s.io, Read(a, b)) # <<>> /\ Append(s.io, Read(a, b))[1] = Read(a, b) BY <1>1, FirstAccess
<1>3. u[s.i.ac + 2][1] = Read(a, b) BY <1>2, TickingIs DEF Extends, Ticking
<1> QED BY <1>3 DEF ReadIn, Read

LEMMA KeptIn ==
  ASSUME NEW s, NEW t, NEW u, NEW io, Ticking(s, t), Extends(u, t, io), NEW c \in 1 .. s.i.ac + 1
  PROVE  ReadIn(u, c) = ReadIn(t, c)
BY TickingIs DEF Extends, Ticking, ReadIn

LEMMA PcMoves ==
  ASSUME NEW s, NEW t, Ticking(s, t), OperandsRead(s.i.op, s.i.ac + 1) = OperandsRead(s.i.op, s.i.ac) + 1
  PROVE  Plus(s.pc, 1) = Plus(s.i.from, 1 + OperandsRead(s.i.op, s.i.ac + 1))
<1> DEFINE k == OperandsRead(s.i.op, s.i.ac)
<1>1. k \in Int BY TickingIs DEF OperandsRead
<1>2. s.pc = Plus(s.i.from, 1 + k) BY DEF Ticking
<1>3. OperandsRead(s.i.op, s.i.ac + 1) = k + 1 OBVIOUS
<1> HIDE DEF k
<1>4. Plus(Plus(s.i.from, 1 + k), 1) = Plus(s.i.from, (1 + k) + 1)
  <2> DEFINE m == 1 + k
  <2>1. s.i.from \in Int /\ m \in Int BY <1>1, TickingIs
  <2> HIDE DEF m
  <2>2. Plus(Plus(s.i.from, m), 1) = Plus(s.i.from, m + 1) BY <2>1, PlusOne
  <2> QED BY <2>2 DEF m
<1>5. (1 + k) + 1 = 1 + (k + 1) BY <1>1
<1> QED BY <1>2, <1>3, <1>4, <1>5

\* A cycle that only reads the target, or does nothing.
LEMMA QuietStep ==
  ASSUME NEW s, NEW t, NEW u, NEW n, Ticking(s, t), Quiet(n, s),
         OperandsRead(s.i.op, s.i.ac + 1) = OperandsRead(s.i.op, s.i.ac),
         InMode(s.i, s.i.ac + 1, u)
  PROVE  Ticked(n, s, u)
BY DEF Quiet, Ticked, Ticking, Same

\* What is known of the target at a count stays known.
LEMMA LocatedKept ==
  ASSUME NEW s, NEW t, NEW u, NEW io, Ticking(s, t), Extends(u, t, io),
         s.i.ac >= (IF Mode(s.i.op) \in {"ind", "indy"} THEN 4 ELSE 2)
  PROVE  Located(s.i, s.i.ac + 1, u)
<1>1. Located(s.i, s.i.ac, t) /\ s.i.ac \in Nat BY TickingIs DEF Ticking, InMode
<1>2. \A c \in 1 .. s.i.ac + 1 : ReadIn(u, c) = ReadIn(t, c) BY KeptIn
<1>3. ASSUME Mode(s.i.op) \notin {"ind", "indy"} PROVE Located(s.i, s.i.ac + 1, u)
  <2>1. s.i.ac >= 2 /\ 2 \in 1 .. s.i.ac + 1 /\ 3 \in 1 .. s.i.ac + 1 BY <1>1, <1>3
  <2>2. ReadIn(u, 2) = ReadIn(t, 2) /\ ReadIn(u, 3) = ReadIn(t, 3) BY <1>2, <2>1
  <2>3. WordIn(u, 2) = WordIn(t, 2) BY <2>2 DEF WordIn
  <2> QED BY <1>1, <1>3, <2>1, <2>2, <2>3 DEF Located
<1>4. ASSUME Mode(s.i.op) \in {"ind", "indy"} PROVE Located(s.i, s.i.ac + 1, u)
  <2>1. s.i.ac >= 4 /\ {3, 4, 5} \subseteq 1 .. s.i.ac + 1 BY <1>1, <1>4
  <2>2. ReadIn(u, 3) = ReadIn(t, 3) /\ ReadIn(u, 4) = ReadIn(t, 4) /\ ReadIn(u, 5) = ReadIn(t, 5) BY <1>2, <2>1
  <2>3. WordIn(u, 3) = WordIn(t, 3) /\ WordIn(u, 4) = WordIn(t, 4) BY <2>2 DEF WordIn
  <2> QED BY <1>1, <1>4, <2>1, <2>2, <2>3 DEF Located
<1> QED BY <1>3, <1>4

\* The first byte of an address.
LEMMA LowStep ==
  ASSUME NEW s, NEW t, NEW u, NEW b \in Int, Ticking(s, t), s.i.ac = 0,
         Extends(u, t, FetchLow(s, b).io), Mode(s.i.op) \in {"zp", "zpx", "zpy", "abs", "absx", "absy"},
         1 \in 0 .. ModeCycles(s.i)
  PROVE  Ticked(FetchLow(s, b), s, u)
<1> DEFINE n == FetchLow(s, b)
<1>1. /\ n \in Moment /\ n.pc = Plus(s.pc, 1) /\ n.sp = s.sp /\ n.i = [s.i EXCEPT !.addr = b]
      /\ n.io = Append(s.io, Read(s.pc, b))
  BY TickingIs, FetchLowIs
<1>2. Extends(u, t, n.io) OBVIOUS
<1> HIDE DEF n
<1>3. Same(n.i, s.i) /\ n.i.ac = s.i.ac /\ n.i.addr = b /\ n.i.crossed = s.i.crossed /\ n.i.base = s.i.base
  BY <1>1, TickingIs DEF Ins, Same
<1>4. ReadIn(u, 2) = b
  <2>1. Extends(u, t, Append(s.io, Read(s.pc, b))) /\ s.pc \in Int BY <1>1, <1>2, TickingIs
  <2>2. ReadIn(u, s.i.ac + 2) = b BY <2>1, FetchedIn
  <2> QED BY <2>2
<1>5. n.pc = Plus(s.i.from, 1 + OperandsRead(s.i.op, s.i.ac + 1))
  <2>1. OperandsRead(s.i.op, s.i.ac + 1) = OperandsRead(s.i.op, s.i.ac) + 1 BY DEF OperandsRead
  <2> QED BY <1>1, <2>1, PcMoves
<1>6. ModeCycles(n.i) = ModeCycles(s.i) BY <1>3 DEF ModeCycles, Same
<1>7. Located(n.i, 1, u) BY <1>3, <1>4 DEF Located, Same
<1>8. InMode(n.i, s.i.ac + 1, u) BY <1>6, <1>7 DEF InMode
<1> QED BY <1>1, <1>3, <1>5, <1>8 DEF Ticked, n

LEMMA AbsoluteStep ==
  ASSUME NEW s, NEW t, NEW u, NEW b \in Byte, Ticking(s, t), Mode(s.i.op) = "abs",
         Extends(u, t, AbsoluteTick(s, b).io)
  PROVE  \E n : AbsoluteTick(s, b) = AcDone(n) /\ Ticked(n, s, u)
<1>1. b \in Int BY BytesAre
<1>2. /\ s.i.ac \in 0..2 /\ (Access(s.i.op) = "J" => s.i.ac \in 0..1)
      /\ s.i.ac + 1 \in 0 .. ModeCycles(s.i)
  BY ModeDoneIs DEF Ticking, InMode, ModeCycles, AbsoluteDone
<1>3. \A n \in Moment : AcDone(n).io = n.io BY AcDoneIs
<1>4. CASE s.i.ac = 0
  <2>1. AbsoluteTick(s, b) = AcDone(FetchLow(s, b)) BY <1>4 DEF AbsoluteTick
  <2>2. FetchLow(s, b) \in Moment BY <1>1, TickingIs, FetchLowIs
  <2>3. Ticked(FetchLow(s, b), s, u) BY <1>1, <1>2, <1>3, <1>4, <2>1, <2>2, LowStep
  <2> QED BY <2>1, <2>3
<1>5. CASE s.i.ac = 1
  <2> DEFINE n == FetchHigh(s, b)
  <2>1. AbsoluteTick(s, b) = AcDone(n) BY <1>5 DEF AbsoluteTick
  <2>2. /\ n \in Moment /\ n.pc = Plus(s.pc, 1) /\ n.sp = s.sp
        /\ n.i = [s.i EXCEPT !.addr = s.i.addr + B * b]
        /\ n.io = Append(s.io, Read(s.pc, b))
    BY <1>1, TickingIs, FetchHighIs
  <2> HIDE DEF n
  <2>3. /\ Same(n.i, s.i) /\ n.i.ac = s.i.ac /\ n.i.addr = s.i.addr + B * b
        /\ n.i.crossed = s.i.crossed
    BY <2>2, TickingIs DEF Ins, Same
  <2>4. AcDone(n).io = n.io BY <2>2, <1>3
  <2>5. ReadIn(u, 3) = b
    <3>1. Extends(u, t, Append(s.io, Read(s.pc, b))) /\ s.pc \in Int BY <2>1, <2>2, <2>4, TickingIs
    <3>2. ReadIn(u, s.i.ac + 2) = b BY <1>1, <3>1, FetchedIn
    <3> QED BY <1>5, <3>2
  <2>6. ReadIn(u, 2) = s.i.addr
    <3>1. ReadIn(u, 2) = ReadIn(t, 2) BY <1>5, KeptIn
    <3>2. ReadIn(t, 2) = s.i.addr BY <1>5 DEF Ticking, InMode, Located
    <3> QED BY <3>1, <3>2
  <2>7. n.pc = Plus(s.i.from, 1 + OperandsRead(s.i.op, s.i.ac + 1))
    <3>1. OperandsRead(s.i.op, s.i.ac + 1) = OperandsRead(s.i.op, s.i.ac) + 1 BY <1>5 DEF OperandsRead
    <3> QED BY <2>2, <3>1, PcMoves
  <2>8. ModeCycles(n.i) = ModeCycles(s.i) BY <2>3 DEF ModeCycles, Same
  <2>9. n.i.addr = WordIn(u, 2) BY <2>3, <2>5, <2>6 DEF WordIn
  <2>10. Located(n.i, 2, u) BY <2>3, <2>9 DEF Located, Same
  <2>11. InMode(n.i, s.i.ac + 1, u) BY <1>2, <1>5, <2>8, <2>10 DEF InMode
  <2> QED BY <2>1, <2>2, <2>3, <2>7, <2>11 DEF Ticked
<1>6. CASE s.i.ac = 2
  <2>1. AbsoluteTick(s, b) = AcDone(ReadTarget(s)) BY <1>6 DEF AbsoluteTick
  <2>2. Located(s.i, s.i.ac + 1, u) BY <1>6, LocatedKept
  <2>3. OperandsRead(s.i.op, s.i.ac + 1) = OperandsRead(s.i.op, s.i.ac) BY <1>6 DEF OperandsRead
  <2>4. Quiet(ReadTarget(s), s) BY TickingIs, ReadsAreQuiet
  <2>5. Ticked(ReadTarget(s), s, u) BY <1>2, <2>2, <2>3, <2>4, QuietStep DEF InMode
  <2> QED BY <2>1, <2>5
<1> QED BY <1>2, <1>4, <1>5, <1>6

\* What the cycles put into the instruction.
SetAddr(s, v) == [s EXCEPT !.i.addr = v]
SetPointer(s, v) == [s EXCEPT !.i.pointer = v]
SetBase(s, v) == [s EXCEPT !.i.base = v]

LEMMA PointerUpdate == \A i \in Ins : \A n \in Int : [i EXCEPT !.pointer = n] \in Ins
BY DEF Ins
LEMMA BaseUpdate == \A i \in Ins : \A n \in Int : [i EXCEPT !.base = n] \in Ins
BY DEF Ins

LEMMA PutAddr ==
  ASSUME NEW s \in Moment, NEW v \in Int
  PROVE  /\ SetAddr(s, v) \in Moment
         /\ SetAddr(s, v).pc = s.pc /\ SetAddr(s, v).sp = s.sp /\ SetAddr(s, v).io = s.io
         /\ SetAddr(s, v).i = [s.i EXCEPT !.addr = v]
<1>1. [s.i EXCEPT !.addr = v] \in Ins BY AddrUpdate DEF Moment
<1>2. SetAddr(s, v) = [s EXCEPT !.i = [s.i EXCEPT !.addr = v]] BY DEF SetAddr, Moment
<1> QED BY <1>1, <1>2 DEF Moment

LEMMA PutPointer ==
  ASSUME NEW s \in Moment, NEW v \in Int
  PROVE  /\ SetPointer(s, v) \in Moment
         /\ SetPointer(s, v).pc = s.pc /\ SetPointer(s, v).sp = s.sp /\ SetPointer(s, v).io = s.io
         /\ SetPointer(s, v).i = [s.i EXCEPT !.pointer = v]
<1>1. [s.i EXCEPT !.pointer = v] \in Ins BY PointerUpdate DEF Moment
<1>2. SetPointer(s, v) = [s EXCEPT !.i = [s.i EXCEPT !.pointer = v]] BY DEF SetPointer, Moment
<1> QED BY <1>1, <1>2 DEF Moment

LEMMA PutBase ==
  ASSUME NEW s \in Moment, NEW v \in Int
  PROVE  /\ SetBase(s, v) \in Moment
         /\ SetBase(s, v).pc = s.pc /\ SetBase(s, v).sp = s.sp /\ SetBase(s, v).io = s.io
         /\ SetBase(s, v).i = [s.i EXCEPT !.base = v]
<1>1. [s.i EXCEPT !.base = v] \in Ins BY BaseUpdate DEF Moment
<1>2. SetBase(s, v) = [s EXCEPT !.i = [s.i EXCEPT !.base = v]] BY DEF SetBase, Moment
<1> QED BY <1>1, <1>2 DEF Moment

\* The modes of which nothing is known but their count.
FreeModes == {"imm", "zp", "zpx", "zpy", "indx"}

\* A state that a tick of a mode may lead to, and what of it is as before.
Along(n, s) == n \in Moment /\ n.sp = s.sp /\ Same(n.i, s.i) /\ n.i.ac = s.i.ac

LEMMA AlongIs ==
  ASSUME NEW s \in Moment, NEW n \in Moment, n.sp = s.sp, n.i = s.i
  PROVE  Along(n, s)
BY DEF Along, Same

LEMMA AlongAddr ==
  ASSUME NEW s \in Moment, NEW n \in Moment, n.sp = s.sp, NEW v, n.i = [s.i EXCEPT !.addr = v]
  PROVE  Along(n, s) /\ n.i.addr = v
<1>1. s.i \in Ins BY DEF Moment
<1> QED BY <1>1 DEF Along, Same, Ins

LEMMA AlongPointer ==
  ASSUME NEW s \in Moment, NEW n \in Moment, n.sp = s.sp, NEW v, n.i = [s.i EXCEPT !.pointer = v]
  PROVE  Along(n, s) /\ n.i.pointer = v
<1>1. s.i \in Ins BY DEF Moment
<1> QED BY <1>1 DEF Along, Same, Ins

LEMMA AlongBase ==
  ASSUME NEW s \in Moment, NEW n \in Moment, n.sp = s.sp, NEW v, n.i = [s.i EXCEPT !.base = v]
  PROVE  Along(n, s) /\ n.i.base = v
<1>1. s.i \in Ins BY DEF Moment
<1> QED BY <1>1 DEF Along, Same, Ins

LEMMA FreeStep ==
  ASSUME NEW s, NEW t, NEW u, NEW n, Ticking(s, t), Mode(s.i.op) \in FreeModes, Along(n, s),
         n.pc = IF s.i.ac = 0 THEN Plus(s.pc, 1) ELSE s.pc
  PROVE  Ticked(n, s, u)
<1>1. s.i.ac \in Nat /\ s.i.ac + 1 \in 0 .. ModeCycles(s.i)
  BY TickingIs, ModeDoneIs DEF Ticking, InMode, ModeCycles, FreeModes
<1>2. ModeCycles(n.i) = ModeCycles(s.i) BY DEF ModeCycles, Along, Same, FreeModes
<1>3. Located(n.i, s.i.ac + 1, u) BY DEF Located, Along, Same, FreeModes
<1>4. n.pc = Plus(s.i.from, 1 + OperandsRead(s.i.op, s.i.ac + 1))
  <2>1. CASE s.i.ac = 0
    <3>1. OperandsRead(s.i.op, s.i.ac + 1) = OperandsRead(s.i.op, s.i.ac) + 1 BY <2>1 DEF OperandsRead, FreeModes
    <3> QED BY <2>1, <3>1, PcMoves
  <2>2. CASE s.i.ac # 0
    <3>1. OperandsRead(s.i.op, s.i.ac + 1) = OperandsRead(s.i.op, s.i.ac)
      BY <1>1, <2>2 DEF OperandsRead, FreeModes
    <3> QED BY <2>2, <3>1 DEF Ticking
  <2> QED BY <2>1, <2>2
<1> QED BY <1>1, <1>2, <1>3, <1>4 DEF Ticked, InMode, Along

LEMMA ImmediateStep ==
  ASSUME NEW s, NEW t, NEW u, NEW b \in Byte, Ticking(s, t), Mode(s.i.op) = "imm"
  PROVE  \E n : ImmediateTick(s, b) = AcDone(n) /\ Ticked(n, s, u)
<1> DEFINE n == Advance(Also(s, Peek(s.pc)))
<1>1. s.i.ac = 0 BY TickingIs, ModeDoneIs DEF Ticking, InMode, ModeCycles
<1>2. Peek(s.pc) \in Bus BY TickingIs, ReadIs
<1>3. Quiet(Also(s, Peek(s.pc)), s) BY <1>2, TickingIs, AlsoIs DEF Quiet
<1>4. n \in Moment /\ n.pc = Plus(s.pc, 1) /\ n.sp = s.sp /\ n.i = s.i BY <1>3, AdvanceIs DEF Quiet
<1> HIDE DEF n
<1>5. Along(n, s) BY <1>4, TickingIs, AlongIs
<1>6. Ticked(n, s, u) BY <1>1, <1>4, <1>5, FreeStep DEF FreeModes
<1> QED BY <1>6 DEF ImmediateTick, n

\* What the cycles of the zero page modes do.
LEMMA ZeroPageCycles ==
  ASSUME NEW s, NEW t, Ticking(s, t), NEW b \in Byte
  PROVE  /\ Along(FetchLow(s, b), s) /\ FetchLow(s, b).pc = Plus(s.pc, 1)
         /\ Along(ReadTarget(s), s) /\ ReadTarget(s).pc = s.pc
         /\ Along([s EXCEPT !.i.addr = (@ + s.i.index) % B], s)
         /\ [s EXCEPT !.i.addr = (@ + s.i.index) % B].pc = s.pc
<1>1. b \in Int /\ s \in Moment BY BytesAre, TickingIs
<1>2. Along(FetchLow(s, b), s) /\ FetchLow(s, b).pc = Plus(s.pc, 1)
  <2> DEFINE n == FetchLow(s, b)
  <2>1. n \in Moment /\ n.pc = Plus(s.pc, 1) /\ n.sp = s.sp /\ n.i = [s.i EXCEPT !.addr = b]
    BY <1>1, FetchLowIs
  <2> HIDE DEF n
  <2>2. Along(n, s) BY <1>1, <2>1, AlongAddr
  <2> QED BY <2>1, <2>2 DEF n
<1>3. Along(ReadTarget(s), s) /\ ReadTarget(s).pc = s.pc BY <1>1, ReadsAreQuiet, AlongIs DEF Quiet
<1>4. /\ Along([s EXCEPT !.i.addr = (@ + s.i.index) % B], s)
      /\ [s EXCEPT !.i.addr = (@ + s.i.index) % B].pc = s.pc
  <2> DEFINE v == (s.i.addr + s.i.index) % B
             n == SetAddr(s, v)
  <2>1. v \in Int
    <3>1. s.i.addr + s.i.index \in Int BY TickingIs
    <3> QED BY <3>1, BytesAre DEF Low
  <2>2. [s EXCEPT !.i.addr = (@ + s.i.index) % B] = n BY DEF SetAddr
  <2> HIDE DEF v
  <2>3. n \in Moment /\ n.pc = s.pc /\ n.sp = s.sp /\ n.i = [s.i EXCEPT !.addr = v] BY <1>1, <2>1, PutAddr
  <2> HIDE DEF n
  <2>4. Along(n, s) BY <1>1, <2>3, AlongAddr
  <2> QED BY <2>2, <2>3, <2>4
<1> QED BY <1>2, <1>3, <1>4

LEMMA ZeroPageStep ==
  ASSUME NEW s, NEW t, NEW u, NEW b \in Byte, Ticking(s, t), Mode(s.i.op) = "zp"
  PROVE  \E n : ZeroPageTick(s, b) = AcDone(n) /\ Ticked(n, s, u)
<1>1. s.i.ac \in {0, 1} BY TickingIs, ModeDoneIs DEF Ticking, InMode, ModeCycles
<1>2. CASE s.i.ac = 0
  <2>1. ZeroPageTick(s, b) = AcDone(FetchLow(s, b)) BY <1>2 DEF ZeroPageTick
  <2>2. Along(FetchLow(s, b), s) /\ FetchLow(s, b).pc = Plus(s.pc, 1) BY ZeroPageCycles
  <2>3. Ticked(FetchLow(s, b), s, u) BY <1>2, <2>2, FreeStep DEF FreeModes
  <2> QED BY <2>1, <2>3
<1>3. CASE s.i.ac = 1
  <2>1. ZeroPageTick(s, b) = AcDone(ReadTarget(s)) BY <1>3 DEF ZeroPageTick
  <2>2. Along(ReadTarget(s), s) /\ ReadTarget(s).pc = s.pc BY ZeroPageCycles
  <2>3. Ticked(ReadTarget(s), s, u) BY <1>3, <2>2, FreeStep DEF FreeModes
  <2> QED BY <2>1, <2>3
<1> QED BY <1>1, <1>2, <1>3

LEMMA ZeroPageXStep ==
  ASSUME NEW s, NEW t, NEW u, NEW b \in Byte, Ticking(s, t), Mode(s.i.op) \in {"zpx", "zpy"}
  PROVE  \E n : /\ ZeroPageXTick(s, b) = AcDone(n) /\ ZeroPageYTick(s, b) = AcDone(n)
                /\ Ticked(n, s, u)
<1>1. s.i.ac \in {0, 1, 2} BY TickingIs, ModeDoneIs DEF Ticking, InMode, ModeCycles
<1>2. CASE s.i.ac = 0
  <2>1. ZeroPageXTick(s, b) = AcDone(FetchLow(s, b)) /\ ZeroPageYTick(s, b) = AcDone(FetchLow(s, b))
    BY <1>2 DEF ZeroPageXTick, ZeroPageYTick
  <2>2. Along(FetchLow(s, b), s) /\ FetchLow(s, b).pc = Plus(s.pc, 1) BY ZeroPageCycles
  <2>3. Ticked(FetchLow(s, b), s, u) BY <1>2, <2>2, FreeStep DEF FreeModes
  <2> QED BY <2>1, <2>3
<1>3. CASE s.i.ac = 1
  <2> DEFINE n == [s EXCEPT !.i.addr = (@ + s.i.index) % B]
  <2>1. ZeroPageXTick(s, b) = AcDone(n) /\ ZeroPageYTick(s, b) = AcDone(n)
    BY <1>3 DEF ZeroPageXTick, ZeroPageYTick
  <2>2. Along(n, s) /\ n.pc = s.pc BY ZeroPageCycles
  <2> HIDE DEF n
  <2> QED BY <1>3, <2>1, <2>2, FreeStep DEF FreeModes
<1>4. CASE s.i.ac = 2
  <2>1. ZeroPageXTick(s, b) = AcDone(ReadTarget(s)) /\ ZeroPageYTick(s, b) = AcDone(ReadTarget(s))
    BY <1>4 DEF ZeroPageXTick, ZeroPageYTick
  <2>2. Along(ReadTarget(s), s) /\ ReadTarget(s).pc = s.pc BY ZeroPageCycles
  <2>3. Ticked(ReadTarget(s), s, u) BY <1>4, <2>2, FreeStep DEF FreeModes
  <2> QED BY <2>1, <2>3
<1> QED BY <1>1, <1>2, <1>3, <1>4

LEMMA IndexedIndirectStep ==
  ASSUME NEW s, NEW t, NEW u, NEW b \in Byte, Ticking(s, t), Mode(s.i.op) = "indx"
  PROVE  \E n : IndexedIndirectTick(s, b) = AcDone(n) /\ Ticked(n, s, u)
<1> DEFINE p == s.i.pointer
<1>1. s.i.ac \in {0, 1, 2, 3, 4}
  <2>1. s.i.ac \in 0 .. ModeCycles(s.i) /\ s.i.ac # 5 BY ModeDoneIs DEF Ticking, InMode
  <2>2. ModeCycles(s.i) = 5 BY DEF ModeCycles
  <2> QED BY <2>1, <2>2
<1>2. b \in Int /\ s \in Moment /\ s.i \in Ins /\ p \in Int /\ Up(p) \in Int /\ s.i.addr + B * b \in Int
  <2>1. b \in Int /\ s \in Moment /\ s.i \in Ins BY BytesAre, TickingIs
  <2>2. p \in Int /\ s.i.addr \in Int BY <2>1 DEF Ins
  <2>3. p + 1 \in Int BY <2>2
  <2>4. Up(p) \in Int BY <2>3, BytesAre DEF Up, Low
  <2>5. B * b \in Int BY <2>1, BytesAre
  <2> QED BY <2>1, <2>2, <2>4, <2>5
<1>3. CASE s.i.ac = 0
  <2> DEFINE o == Operand(s, b)
             v == (b + s.i.index) % B
             n == SetPointer(o, v)
  <2>1. IndexedIndirectTick(s, b) = AcDone(n) BY <1>3 DEF IndexedIndirectTick, SetPointer
  <2>2. o \in Moment /\ o.pc = Plus(s.pc, 1) /\ o.sp = s.sp /\ o.i = s.i BY <1>2, OperandIs
  <2>3. v \in Int
    <3>1. b + s.i.index \in Int BY <1>2, TickingIs
    <3> QED BY <3>1, BytesAre DEF Low
  <2> HIDE DEF o, v
  <2>4. n \in Moment /\ n.pc = o.pc /\ n.sp = o.sp /\ n.i = [o.i EXCEPT !.pointer = v]
    BY <2>2, <2>3, PutPointer
  <2> HIDE DEF n
  <2>5. Along(n, s) BY <1>2, <2>2, <2>4, AlongPointer
  <2> QED BY <1>3, <2>1, <2>2, <2>4, <2>5, FreeStep DEF FreeModes
<1>4. CASE s.i.ac = 1
  <2>1. IndexedIndirectTick(s, b) = AcDone(Also(s, Peek(p))) BY <1>4 DEF IndexedIndirectTick
  <2>2. Peek(p) \in Bus BY <1>2, ReadIs
  <2>3. Along(Also(s, Peek(p)), s) /\ Also(s, Peek(p)).pc = s.pc BY <1>2, <2>2, AlsoIs, AlongIs
  <2> QED BY <1>4, <2>1, <2>3, FreeStep DEF FreeModes
<1>5. ASSUME NEW a \in Int, NEW v \in Int
      PROVE  Along(SetAddr(Also(s, Read(a, b)), v), s) /\ SetAddr(Also(s, Read(a, b)), v).pc = s.pc
  <2> DEFINE o == Also(s, Read(a, b))
             n == SetAddr(o, v)
  <2>1. Read(a, b) \in Bus BY <1>2, ReadIs
  <2>2. o \in Moment /\ o.pc = s.pc /\ o.sp = s.sp /\ o.i = s.i BY <1>2, <2>1, AlsoIs
  <2> HIDE DEF o
  <2>3. n \in Moment /\ n.pc = o.pc /\ n.sp = o.sp /\ n.i = [o.i EXCEPT !.addr = v] BY <2>2, PutAddr
  <2> HIDE DEF n
  <2>4. Along(n, s) /\ n.pc = s.pc BY <1>2, <2>2, <2>3, AlongAddr
  <2> QED BY <2>4 DEF n, o
<1>6. CASE s.i.ac = 2
  <2> DEFINE n == SetAddr(Also(s, Read(p, b)), b)
  <2>1. IndexedIndirectTick(s, b) = AcDone(n) BY <1>6 DEF IndexedIndirectTick, SetAddr
  <2>2. Along(n, s) /\ n.pc = s.pc BY <1>2, <1>5
  <2> HIDE DEF n
  <2> QED BY <1>6, <2>1, <2>2, FreeStep DEF FreeModes
<1>7. CASE s.i.ac = 3
  <2> DEFINE v == s.i.addr + B * b
             n == SetAddr(Also(s, Read(Up(p), b)), v)
  <2>1. IndexedIndirectTick(s, b) = AcDone(n)
    <3>1. Also(s, Read(Up(p), b)).i = s.i BY <1>2, AlsoIs, ReadIs
    <3>2. IndexedIndirectTick(s, b)
            = AcDone([Also(s, Read(Up(p), b)) EXCEPT !.i.addr = Also(s, Read(Up(p), b)).i.addr + B * b])
      BY <1>7 DEF IndexedIndirectTick
    <3> QED BY <3>1, <3>2 DEF SetAddr
  <2>2. v \in Int BY <1>2
  <2> HIDE DEF v
  <2>3. Along(n, s) /\ n.pc = s.pc BY <1>2, <1>5, <2>2
  <2> HIDE DEF n
  <2> QED BY <1>7, <2>1, <2>3, FreeStep DEF FreeModes
<1>8. CASE s.i.ac = 4
  <2>1. IndexedIndirectTick(s, b) = AcDone(ReadTarget(s)) BY <1>8 DEF IndexedIndirectTick
  <2>2. Along(ReadTarget(s), s) /\ ReadTarget(s).pc = s.pc BY ZeroPageCycles
  <2>3. Ticked(ReadTarget(s), s, u) BY <1>8, <2>2, FreeStep DEF FreeModes
  <2> QED BY <2>1, <2>3
<1> QED BY <1>1, <1>3, <1>4, <1>6, <1>7, <1>8

LEMMA RelativeStep ==
  ASSUME NEW s, NEW t, NEW u, NEW b \in Byte, Ticking(s, t), Mode(s.i.op) = "rel",
         Extends(u, t, RelativeTick(s, b).io)
  PROVE  \E n : RelativeTick(s, b) = AcDone(n) /\ Ticked(n, s, u)
<1> DEFINE o == Operand(s, b)
           v == (o.pc + B * B + Signed(b)) % (B * B)
           n == SetAddr(o, v)
<1>1. s.i.ac = 0 BY TickingIs, ModeDoneIs DEF Ticking, InMode, ModeCycles
<1>2. RelativeTick(s, b) = AcDone(n) BY DEF RelativeTick, SetAddr
<1>3. b \in Int /\ s \in Moment /\ Signed(b) \in Int /\ s.i.from \in Int
  BY BytesAre, TickingIs DEF Signed
<1>4. /\ o \in Moment /\ o.pc = Plus(s.pc, 1) /\ o.sp = s.sp /\ o.i = s.i
      /\ o.io = Append(s.io, Read(s.pc, b))
  BY <1>3, OperandIs
<1>5. o.pc = Plus(s.i.from, 2)
  <2>1. OperandsRead(s.i.op, s.i.ac + 1) = OperandsRead(s.i.op, s.i.ac) + 1 BY <1>1 DEF OperandsRead
  <2>2. 1 + OperandsRead(s.i.op, s.i.ac + 1) = 2 BY <1>1 DEF OperandsRead
  <2> QED BY <1>4, <2>1, <2>2, PcMoves
<1>6. v = Plus(Plus(s.i.from, 2), B * B + Signed(b)) /\ v \in Int
  <2> DEFINE w == B * B + Signed(b)
  <2>1. w \in Int /\ o.pc \in Int BY <1>3, <1>4, BytesAre DEF Moment
  <2>2. o.pc + B * B + Signed(b) = o.pc + w
    <3>1. \A x, y, z \in Int : x + y + z = x + (y + z) OBVIOUS
    <3>2. o.pc \in Int /\ B * B \in Int /\ Signed(b) \in Int BY <1>3, <2>1, BytesAre
    <3> QED BY <3>1, <3>2
  <2>3. v = Plus(o.pc, w) BY <2>2 DEF Plus
  <2> HIDE DEF w
  <2>4. Plus(o.pc, w) \in Int BY <2>1, BytesAre
  <2> QED BY <1>5, <2>3, <2>4 DEF w
<1> HIDE DEF o, v
<1>7. /\ n \in Moment /\ n.pc = o.pc /\ n.sp = o.sp /\ n.io = o.io /\ n.i = [o.i EXCEPT !.addr = v]
  BY <1>4, <1>6, PutAddr
<1> HIDE DEF n
<1>8. Along(n, s) /\ n.i.addr = v
  <2>1. n \in Moment /\ n.sp = s.sp /\ n.i = [s.i EXCEPT !.addr = v] BY <1>4, <1>7
  <2> QED BY <1>3, <2>1, AlongAddr
<1>9. n.i.addr = v BY <1>8
<1>10. ReadIn(u, 2) = b
  <2>1. AcDone(n).io = n.io BY <1>7, AcDoneIs
  <2>2. Extends(u, t, Append(s.io, Read(s.pc, b))) /\ s.pc \in Int BY <1>2, <1>4, <1>7, <2>1, TickingIs
  <2>3. ReadIn(u, s.i.ac + 2) = b BY <1>3, <2>2, FetchedIn
  <2> QED BY <1>1, <2>3
<1>11. n.pc = Plus(s.i.from, 1 + OperandsRead(s.i.op, s.i.ac + 1))
  <2>1. 1 + OperandsRead(s.i.op, s.i.ac + 1) = 2 BY <1>1 DEF OperandsRead
  <2> QED BY <1>5, <1>7, <2>1
<1>12. InMode(n.i, s.i.ac + 1, u)
  <2>1. s.i.ac + 1 \in 0 .. ModeCycles(n.i) BY <1>1, <1>8 DEF ModeCycles, Along, Same
  <2>2. n.i.addr = Plus(Plus(n.i.from, 2), B * B + Signed(ReadIn(u, 2)))
    BY <1>6, <1>8, <1>9, <1>10 DEF Along, Same
  <2>3. Located(n.i, s.i.ac + 1, u) BY <1>1, <1>8, <2>2 DEF Located, Along, Same
  <2> QED BY <2>1, <2>3 DEF InMode
<1> QED BY <1>2, <1>8, <1>11, <1>12 DEF Ticked, Along

\* The cycle in which the base is complete: the high byte is read, and the index added.
LEMMA HighIndexed ==
  ASSUME NEW s, NEW t, NEW u, NEW b \in Byte, Ticking(s, t), Mode(s.i.op) \in {"absx", "absy"},
         s.i.ac = 1, Extends(u, t, Indexed(Operand(s, b), s.i.addr + B * b).io)
  PROVE  Indexed(Operand(s, b), s.i.addr + B * b) \in Moment
         /\ Ticked(Indexed(Operand(s, b), s.i.addr + B * b), s, u)
<1> DEFINE o == Operand(s, b)
           base == s.i.addr + B * b
           n == Indexed(o, base)
<1>1. b \in Int /\ s \in Moment /\ s.i \in Ins /\ base \in Int
  <2>1. b \in Int /\ s \in Moment /\ s.i \in Ins /\ s.i.addr \in Int BY BytesAre, TickingIs
  <2>2. B * b \in Int BY <2>1, BytesAre
  <2> QED BY <2>1, <2>2
<1>2. /\ o \in Moment /\ o.pc = Plus(s.pc, 1) /\ o.sp = s.sp /\ o.i = s.i
      /\ o.io = Append(s.io, Read(s.pc, b))
  BY <1>1, OperandIs
<1>3. Extends(u, t, n.io) OBVIOUS
<1> HIDE DEF o
<1>4. /\ n \in Moment /\ n.pc = o.pc /\ n.sp = o.sp /\ n.io = o.io
      /\ n.i = [o.i EXCEPT !.base = base, !.addr = Plus(base, o.i.index), !.crossed = Crossing(base, o.i.index)]
  <2> HIDE DEF base
  <2> QED BY <1>1, <1>2, IndexedIs
<1> HIDE DEF n
<1>5. base = WordIn(u, 2)
  <2>1. Extends(u, t, Append(s.io, Read(s.pc, b))) /\ s.pc \in Int BY <1>2, <1>3, <1>4, TickingIs
  <2>2. ReadIn(u, s.i.ac + 2) = b BY <1>1, <2>1, FetchedIn
  <2>3. ReadIn(u, 3) = b BY <2>2
  <2>4. ReadIn(u, 2) = ReadIn(t, 2) BY <1>3, KeptIn
  <2>5. ReadIn(t, 2) = s.i.addr BY DEF Ticking, InMode, Located
  <2> QED BY <2>3, <2>4, <2>5 DEF WordIn
<1> HIDE DEF base
<1>6. /\ Same(n.i, s.i) /\ n.i.ac = s.i.ac /\ n.i.base = base
      /\ n.i.addr = Plus(base, s.i.index) /\ n.i.crossed = Crossing(base, s.i.index)
  BY <1>1, <1>2, <1>4 DEF Ins, Same
<1>7. n.pc = Plus(s.i.from, 1 + OperandsRead(s.i.op, s.i.ac + 1))
  <2>1. OperandsRead(s.i.op, s.i.ac + 1) = OperandsRead(s.i.op, s.i.ac) + 1 BY DEF OperandsRead
  <2> QED BY <1>2, <1>4, <2>1, PcMoves
<1>8. InMode(n.i, s.i.ac + 1, u)
  <2>1. s.i.ac + 1 \in 0 .. ModeCycles(n.i) BY <1>6 DEF ModeCycles, Same
  <2>2. Located(n.i, 2, u) BY <1>5, <1>6 DEF Located, Same
  <2> QED BY <2>1, <2>2 DEF InMode
<1>9. Ticked(n, s, u) BY <1>2, <1>4, <1>6, <1>7, <1>8 DEF Ticked
<1> QED BY <1>4, <1>9 DEF n, o, base

LEMMA AbsoluteXStep ==
  ASSUME NEW s, NEW t, NEW u, NEW b \in Byte, Ticking(s, t), Mode(s.i.op) \in {"absx", "absy"},
         Extends(u, t, AbsoluteXTick(s, b).io)
  PROVE  \E n : /\ AbsoluteXTick(s, b) = AcDone(n) /\ AbsoluteYTick(s, b) = AcDone(n)
                /\ Ticked(n, s, u)
<1>1. b \in Int BY BytesAre
<1>2. s.i.ac \in 0..3 /\ s.i.ac + 1 \in 0 .. ModeCycles(s.i)
  BY ModeDoneIs DEF Ticking, InMode, ModeCycles, IndexedDone
<1>3. \A n \in Moment : AcDone(n).io = n.io BY AcDoneIs
<1>4. CASE s.i.ac = 0
  <2>1. AbsoluteXTick(s, b) = AcDone(FetchLow(s, b)) /\ AbsoluteYTick(s, b) = AcDone(FetchLow(s, b))
    BY <1>4 DEF AbsoluteXTick, AbsoluteYTick
  <2>2. FetchLow(s, b) \in Moment BY <1>1, TickingIs, FetchLowIs
  <2>3. Ticked(FetchLow(s, b), s, u) BY <1>1, <1>2, <1>3, <1>4, <2>1, <2>2, LowStep
  <2> QED BY <2>1, <2>3
<1>5. CASE s.i.ac = 1
  <2> DEFINE n == Indexed(Operand(s, b), s.i.addr + B * b)
  <2>1. AbsoluteXTick(s, b) = AcDone(n) /\ AbsoluteYTick(s, b) = AcDone(n)
    BY <1>5 DEF AbsoluteXTick, AbsoluteYTick
  <2>2. n \in Moment
    <3>1. Operand(s, b) \in Moment BY <1>1, TickingIs, OperandIs
    <3>2. B * b \in Int BY <1>1, BytesAre
    <3>3. s.i.addr + B * b \in Int BY <3>2, TickingIs
    <3> QED BY <3>1, <3>3, IndexedIs
  <2>3. Extends(u, t, n.io) BY <1>3, <2>1, <2>2
  <2>4. Ticked(n, s, u) BY <1>5, <2>3, HighIndexed
  <2> HIDE DEF n
  <2> QED BY <2>1, <2>4
<1>6. ASSUME NEW n, Quiet(n, s), s.i.ac \in {2, 3} PROVE Ticked(n, s, u)
  <2>1. Located(s.i, s.i.ac + 1, u) BY <1>6, LocatedKept
  <2>2. OperandsRead(s.i.op, s.i.ac + 1) = OperandsRead(s.i.op, s.i.ac) BY <1>6 DEF OperandsRead
  <2> QED BY <1>2, <1>6, <2>1, <2>2, QuietStep DEF InMode
<1>7. Quiet(ReadTarget(s), s) /\ Quiet(ReadIndexed(s), s) BY TickingIs, ReadsAreQuiet
<1>8. CASE s.i.ac = 2
  <2>1. AbsoluteXTick(s, b) = AcDone(ReadIndexed(s)) /\ AbsoluteYTick(s, b) = AcDone(ReadIndexed(s))
    BY <1>8 DEF AbsoluteXTick, AbsoluteYTick
  <2>2. Ticked(ReadIndexed(s), s, u) BY <1>6, <1>7, <1>8
  <2> QED BY <2>1, <2>2
<1>9. CASE s.i.ac = 3
  <2>1. AbsoluteXTick(s, b) = AcDone(ReadTarget(s)) /\ AbsoluteYTick(s, b) = AcDone(ReadTarget(s))
    BY <1>9 DEF AbsoluteXTick, AbsoluteYTick
  <2>2. Ticked(ReadTarget(s), s, u) BY <1>6, <1>7, <1>9
  <2> QED BY <2>1, <2>2
<1> QED BY <1>2, <1>4, <1>5, <1>8, <1>9

\* A cycle that reads a byte of a pointer into addr or base.
LEMMA ReadIntoAddr ==
  ASSUME NEW s \in Moment, NEW a \in Int, NEW b \in Int, NEW v \in Int
  PROVE  LET n == SetAddr(Also(s, Read(a, b)), v)
         IN  n \in Moment /\ Along(n, s) /\ n.pc = s.pc /\ n.i.addr = v
             /\ n.io = Append(s.io, Read(a, b))
<1> DEFINE o == Also(s, Read(a, b))
           n == SetAddr(o, v)
<1>1. Read(a, b) \in Bus BY ReadIs
<1>2. o \in Moment /\ o.pc = s.pc /\ o.sp = s.sp /\ o.i = s.i /\ o.io = Append(s.io, Read(a, b))
  BY <1>1, AlsoIs
<1> HIDE DEF o
<1>3. n \in Moment /\ n.pc = o.pc /\ n.sp = o.sp /\ n.io = o.io /\ n.i = [o.i EXCEPT !.addr = v]
  BY <1>2, PutAddr
<1> HIDE DEF n
<1>4. Along(n, s) /\ n.i.addr = v
  <2>1. n \in Moment /\ n.sp = s.sp /\ n.i = [s.i EXCEPT !.addr = v] BY <1>2, <1>3
  <2> QED BY <2>1, AlongAddr
<1> QED BY <1>2, <1>3, <1>4 DEF n, o

LEMMA ReadIntoBase ==
  ASSUME NEW s \in Moment, NEW a \in Int, NEW b \in Int, NEW v \in Int
  PROVE  LET n == SetBase(Also(s, Read(a, b)), v)
         IN  n \in Moment /\ Along(n, s) /\ n.pc = s.pc /\ n.i.base = v
             /\ n.io = Append(s.io, Read(a, b))
<1> DEFINE o == Also(s, Read(a, b))
           n == SetBase(o, v)
<1>1. Read(a, b) \in Bus BY ReadIs
<1>2. o \in Moment /\ o.pc = s.pc /\ o.sp = s.sp /\ o.i = s.i /\ o.io = Append(s.io, Read(a, b))
  BY <1>1, AlsoIs
<1> HIDE DEF o
<1>3. n \in Moment /\ n.pc = o.pc /\ n.sp = o.sp /\ n.io = o.io /\ n.i = [o.i EXCEPT !.base = v]
  BY <1>2, PutBase
<1> HIDE DEF n
<1>4. Along(n, s) /\ n.i.base = v
  <2>1. n \in Moment /\ n.sp = s.sp /\ n.i = [s.i EXCEPT !.base = v] BY <1>2, <1>3
  <2> QED BY <2>1, AlongBase
<1> QED BY <1>2, <1>3, <1>4 DEF n, o

\* A cycle that reads a byte of the program into pointer.
LEMMA OperandInto ==
  ASSUME NEW s \in Moment, NEW b \in Int, NEW v \in Int
  PROVE  LET n == SetPointer(Operand(s, b), v)
         IN  n \in Moment /\ Along(n, s) /\ n.pc = Plus(s.pc, 1) /\ n.io = Append(s.io, Read(s.pc, b))
<1> DEFINE o == Operand(s, b)
           n == SetPointer(o, v)
<1>1. o \in Moment /\ o.pc = Plus(s.pc, 1) /\ o.sp = s.sp /\ o.i = s.i /\ o.io = Append(s.io, Read(s.pc, b))
  BY OperandIs
<1> HIDE DEF o
<1>2. n \in Moment /\ n.pc = o.pc /\ n.sp = o.sp /\ n.io = o.io /\ n.i = [o.i EXCEPT !.pointer = v]
  BY <1>1, PutPointer
<1> HIDE DEF n
<1>3. Along(n, s)
  <2>1. n \in Moment /\ n.sp = s.sp /\ n.i = [s.i EXCEPT !.pointer = v] BY <1>1, <1>2
  <2> QED BY <2>1, AlongPointer
<1> QED BY <1>1, <1>2, <1>3 DEF n, o

\* What is left to show of a cycle that reads a byte.
LEMMA ReadStep ==
  ASSUME NEW s, NEW t, NEW u, NEW n, Ticking(s, t), Along(n, s), InMode(n.i, s.i.ac + 1, u),
         \/ /\ n.pc = Plus(s.pc, 1)
            /\ OperandsRead(s.i.op, s.i.ac + 1) = OperandsRead(s.i.op, s.i.ac) + 1
         \/ /\ n.pc = s.pc
            /\ OperandsRead(s.i.op, s.i.ac + 1) = OperandsRead(s.i.op, s.i.ac)
  PROVE  Ticked(n, s, u)
<1>1. n.pc = Plus(s.i.from, 1 + OperandsRead(s.i.op, s.i.ac + 1))
  <2>1. CASE n.pc = Plus(s.pc, 1) /\ OperandsRead(s.i.op, s.i.ac + 1) = OperandsRead(s.i.op, s.i.ac) + 1
    BY <2>1, PcMoves
  <2>2. CASE n.pc = s.pc /\ OperandsRead(s.i.op, s.i.ac + 1) = OperandsRead(s.i.op, s.i.ac)
    BY <2>2 DEF Ticking
  <2> QED BY <2>1, <2>2
<1> QED BY <1>1 DEF Ticked, Along

LEMMA IndirectStep ==
  ASSUME NEW s, NEW t, NEW u, NEW b \in Byte, Ticking(s, t), Mode(s.i.op) = "ind",
         Extends(u, t, IndirectTick(s, b).io)
  PROVE  \E n : IndirectTick(s, b) = AcDone(n) /\ Ticked(n, s, u)
<1> DEFINE p == s.i.pointer
           high == IF Low(p) = B - 1 THEN B * Page(p) ELSE Plus(p, 1)
<1>1. s.i.ac \in {0, 1, 2, 3}
  <2>1. s.i.ac \in 0 .. ModeCycles(s.i) /\ s.i.ac # 4 BY ModeDoneIs DEF Ticking, InMode
  <2>2. ModeCycles(s.i) = 4 BY DEF ModeCycles
  <2> QED BY <2>1, <2>2
<1>2. b \in Int /\ s \in Moment /\ s.i \in Ins /\ p \in Int /\ s.i.addr \in Int /\ s.pc \in Int
  BY BytesAre, TickingIs DEF Ins
<1>3. high \in Int /\ p + B * b \in Int /\ s.i.addr + B * b \in Int
  <2>1. B * b \in Int /\ Page(p) \in Int /\ Plus(p, 1) \in Int
    <3> HIDE DEF p
    <3>1. b \in Int /\ p \in Int /\ 1 \in Int BY <1>2
    <3> QED BY <3>1, BytesAre
  <2>2. B * Page(p) \in Int BY <2>1, BytesAre
  <2> QED BY <1>2, <2>1, <2>2
<1>4. \A n \in Moment : AcDone(n).io = n.io BY AcDoneIs
<1> HIDE DEF high
<1>5. ASSUME NEW n, Along(n, s), s.i.ac + 1 < 3 PROVE InMode(n.i, s.i.ac + 1, u)
  BY <1>1, <1>5 DEF InMode, ModeCycles, Located, Along, Same
<1>6. CASE s.i.ac = 0
  <2> DEFINE n == SetPointer(Operand(s, b), b)
  <2>1. IndirectTick(s, b) = AcDone(n) BY <1>6 DEF IndirectTick, SetPointer
  <2>2. n \in Moment /\ Along(n, s) /\ n.pc = Plus(s.pc, 1) /\ n.io = Append(s.io, Read(s.pc, b))
    BY <1>2, OperandInto
  <2> HIDE DEF n
  <2>3. Extends(u, t, n.io) BY <1>4, <2>1, <2>2
  <2>4. OperandsRead(s.i.op, s.i.ac + 1) = OperandsRead(s.i.op, s.i.ac) + 1 BY <1>6 DEF OperandsRead
  <2>5. InMode(n.i, s.i.ac + 1, u) BY <1>5, <1>6, <2>2
  <2>6. Ticked(n, s, u) BY <1>2, <2>2, <2>3, <2>4, <2>5, ReadStep
  <2> QED BY <2>1, <2>6
<1>7. CASE s.i.ac = 1
  <2> DEFINE v == p + B * b
             n == SetPointer(Operand(s, b), v)
  <2>1. IndirectTick(s, b) = AcDone(n)
    <3>1. Operand(s, b).i = s.i BY <1>2, OperandIs
    <3>2. IndirectTick(s, b)
            = AcDone([Operand(s, b) EXCEPT !.i.pointer = Operand(s, b).i.pointer + B * b])
      BY <1>7 DEF IndirectTick
    <3> QED BY <3>1, <3>2 DEF SetPointer
  <2>2. v \in Int BY <1>3
  <2> HIDE DEF v
  <2>3. n \in Moment /\ Along(n, s) /\ n.pc = Plus(s.pc, 1) /\ n.io = Append(s.io, Read(s.pc, b))
    BY <1>2, <2>2, OperandInto
  <2> HIDE DEF n
  <2>4. Extends(u, t, n.io) BY <1>4, <2>1, <2>3
  <2>5. OperandsRead(s.i.op, s.i.ac + 1) = OperandsRead(s.i.op, s.i.ac) + 1 BY <1>7 DEF OperandsRead
  <2>6. InMode(n.i, s.i.ac + 1, u) BY <1>5, <1>7, <2>3
  <2>7. Ticked(n, s, u) BY <1>2, <2>3, <2>4, <2>5, <2>6, ReadStep
  <2> QED BY <2>1, <2>7
<1>8. CASE s.i.ac = 2
  <2> DEFINE n == SetAddr(Also(s, Read(p, b)), b)
  <2>1. IndirectTick(s, b) = AcDone(n) BY <1>8 DEF IndirectTick, SetAddr
  <2>2. /\ n \in Moment /\ Along(n, s) /\ n.pc = s.pc /\ n.io = Append(s.io, Read(p, b))
        /\ n.i.addr = b
    BY <1>2, ReadIntoAddr
  <2> HIDE DEF n
  <2>3. Extends(u, t, n.io) BY <1>4, <2>1, <2>2
  <2>4. OperandsRead(s.i.op, s.i.ac + 1) = OperandsRead(s.i.op, s.i.ac) BY <1>8 DEF OperandsRead
  <2>5. ReadIn(u, s.i.ac + 2) = b
    <3>1. Extends(u, t, Append(s.io, Read(p, b))) BY <2>2, <2>3
    <3> QED BY <1>2, <3>1, FetchedIn
  <2>6. n.i.addr = b BY <2>2
  <2>7. InMode(n.i, s.i.ac + 1, u) BY <1>8, <2>2, <2>5, <2>6 DEF InMode, ModeCycles, Located, Along, Same
  <2>8. Ticked(n, s, u) BY <1>2, <2>2, <2>3, <2>4, <2>7, ReadStep
  <2> QED BY <2>1, <2>8
<1>9. CASE s.i.ac = 3
  <2> DEFINE v == s.i.addr + B * b
             n == SetAddr(Also(s, Read(high, b)), v)
  <2>1. IndirectTick(s, b) = AcDone(n)
    <3>1. Also(s, Read(high, b)).i = s.i BY <1>2, <1>3, AlsoIs, ReadIs
    <3>2. IndirectTick(s, b)
            = AcDone([Also(s, Read(high, b)) EXCEPT !.i.addr = Also(s, Read(high, b)).i.addr + B * b])
      BY <1>9 DEF IndirectTick, high
    <3> QED BY <3>1, <3>2 DEF SetAddr
  <2>2. v \in Int BY <1>3
  <2>3. ReadIn(t, 4) = s.i.addr BY <1>9 DEF Ticking, InMode, Located
  <2>4. v = s.i.addr + B * b OBVIOUS
  <2> HIDE DEF v
  <2>5. /\ n \in Moment /\ Along(n, s) /\ n.pc = s.pc /\ n.io = Append(s.io, Read(high, b))
        /\ n.i.addr = v
    BY <1>2, <1>3, <2>2, ReadIntoAddr
  <2> HIDE DEF n
  <2>6. Extends(u, t, n.io) BY <1>4, <2>1, <2>5
  <2>7. OperandsRead(s.i.op, s.i.ac + 1) = OperandsRead(s.i.op, s.i.ac) BY <1>9 DEF OperandsRead
  <2>8. ReadIn(u, 5) = b /\ ReadIn(u, 4) = ReadIn(t, 4)
    <3>1. Extends(u, t, Append(s.io, Read(high, b))) BY <2>5, <2>6
    <3>2. ReadIn(u, s.i.ac + 2) = b BY <1>2, <1>3, <3>1, FetchedIn
    <3>3. 4 \in 1 .. s.i.ac + 1 BY <1>9
    <3>4. ReadIn(u, 4) = ReadIn(t, 4) BY <2>6, <3>3, KeptIn
    <3> QED BY <1>9, <3>2, <3>4
  <2>9. n.i.addr = WordIn(u, 4)
    <3>1. n.i.addr = v BY <2>5
    <3> QED BY <2>3, <2>4, <2>8, <3>1 DEF WordIn
  <2>10. InMode(n.i, s.i.ac + 1, u) BY <1>9, <2>5, <2>9 DEF InMode, ModeCycles, Located, Along, Same
  <2>11. Ticked(n, s, u) BY <1>2, <1>3, <2>5, <2>6, <2>7, <2>10, ReadStep
  <2> QED BY <2>1, <2>11
<1> QED BY <1>1, <1>6, <1>7, <1>8, <1>9

\* (pointer),Y: the cycle that adds the index.
LEMMA IndirectIndexes ==
  ASSUME NEW s, NEW t, NEW u, NEW io, Ticking(s, t), Mode(s.i.op) = "indy", s.i.ac = 3, Extends(u, t, io)
  PROVE  Ticked(ReadIndexed(Indexed(s, s.i.base)), s, u)
<1> DEFINE base == s.i.base
           o == Indexed(s, base)
           n == ReadIndexed(o)
<1>1. s \in Moment /\ s.i \in Ins /\ base \in Int BY TickingIs
<1>2. /\ o \in Moment /\ o.pc = s.pc /\ o.sp = s.sp
      /\ o.i = [s.i EXCEPT !.base = base, !.addr = Plus(base, s.i.index), !.crossed = Crossing(base, s.i.index)]
  <2> HIDE DEF base
  <2> QED BY <1>1, IndexedIs
<1>3. base = WordIn(u, 3)
  <2>1. base = WordIn(t, 3) BY DEF Ticking, InMode, Located
  <2>2. 3 \in 1 .. s.i.ac + 1 /\ 4 \in 1 .. s.i.ac + 1 OBVIOUS
  <2>3. ReadIn(u, 3) = ReadIn(t, 3) /\ ReadIn(u, 4) = ReadIn(t, 4) BY <2>2, KeptIn
  <2> QED BY <2>1, <2>3 DEF WordIn
<1> HIDE DEF o, base
<1>4. Quiet(n, o) BY <1>2, ReadsAreQuiet
<1> HIDE DEF n
<1>5. n \in Moment /\ n.pc = s.pc /\ n.sp = s.sp
  BY <1>2, <1>4 DEF Quiet
<1>6. /\ Same(n.i, s.i) /\ n.i.ac = s.i.ac /\ n.i.base = base
      /\ n.i.addr = Plus(base, s.i.index) /\ n.i.crossed = Crossing(base, s.i.index)
  <2>1. n.i = o.i BY <1>4 DEF Quiet
  <2>2. /\ Same(o.i, s.i) /\ o.i.ac = s.i.ac /\ o.i.base = base
        /\ o.i.addr = Plus(base, s.i.index) /\ o.i.crossed = Crossing(base, s.i.index)
    BY <1>1, <1>2 DEF Ins, Same
  <2> QED BY <2>1, <2>2
<1>7. InMode(n.i, s.i.ac + 1, u)
  <2>1. s.i.ac + 1 \in 0 .. ModeCycles(n.i) BY <1>6 DEF ModeCycles, Same
  <2>2. Located(n.i, s.i.ac + 1, u) BY <1>3, <1>6 DEF Located, Same
  <2> QED BY <2>1, <2>2 DEF InMode
<1>8. Along(n, s) BY <1>5, <1>6 DEF Along
<1>9. OperandsRead(s.i.op, s.i.ac + 1) = OperandsRead(s.i.op, s.i.ac) BY DEF OperandsRead
<1>10. Ticked(n, s, u) BY <1>5, <1>7, <1>8, <1>9, ReadStep
<1> QED BY <1>10 DEF n, o, base

LEMMA IndirectIndexedStep ==
  ASSUME NEW s, NEW t, NEW u, NEW b \in Byte, Ticking(s, t), Mode(s.i.op) = "indy",
         Extends(u, t, IndirectIndexedTick(s, b).io)
  PROVE  \E n : IndirectIndexedTick(s, b) = AcDone(n) /\ Ticked(n, s, u)
<1> DEFINE p == s.i.pointer
<1>1. s.i.ac \in {0, 1, 2, 3, 4} /\ s.i.ac + 1 \in 0 .. ModeCycles(s.i)
  BY TickingIs, ModeDoneIs DEF Ticking, InMode, ModeCycles, IndexedDone
<1>2. b \in Int /\ s \in Moment /\ s.i \in Ins /\ p \in Int /\ s.i.base \in Int /\ s.pc \in Int
  BY BytesAre, TickingIs DEF Ins
<1>3. Up(p) \in Int /\ s.i.base + B * b \in Int
  <2> HIDE DEF p
  <2>1. p + 1 \in Int BY <1>2
  <2>2. Up(p) \in Int BY <2>1, BytesAre DEF Up, Low
  <2>3. B * b \in Int BY <1>2, BytesAre
  <2> QED BY <1>2, <2>2, <2>3
<1>4. \A n \in Moment : AcDone(n).io = n.io BY AcDoneIs
<1>5. CASE s.i.ac = 0
  <2> DEFINE n == SetPointer(Operand(s, b), b)
  <2>1. IndirectIndexedTick(s, b) = AcDone(n) BY <1>5 DEF IndirectIndexedTick, SetPointer
  <2>2. n \in Moment /\ Along(n, s) /\ n.pc = Plus(s.pc, 1) BY <1>2, OperandInto
  <2> HIDE DEF n
  <2>3. OperandsRead(s.i.op, s.i.ac + 1) = OperandsRead(s.i.op, s.i.ac) + 1 BY <1>5 DEF OperandsRead
  <2>4. InMode(n.i, s.i.ac + 1, u) BY <1>5, <2>2 DEF InMode, ModeCycles, Located, Along, Same
  <2>5. Ticked(n, s, u) BY <2>2, <2>3, <2>4, ReadStep
  <2> QED BY <2>1, <2>5
<1>6. CASE s.i.ac = 1
  <2> DEFINE n == SetBase(Also(s, Read(p, b)), b)
  <2>1. IndirectIndexedTick(s, b) = AcDone(n) BY <1>6 DEF IndirectIndexedTick, SetBase
  <2>2. /\ n \in Moment /\ Along(n, s) /\ n.pc = s.pc /\ n.io = Append(s.io, Read(p, b))
        /\ n.i.base = b
    BY <1>2, ReadIntoBase
  <2> HIDE DEF n
  <2>3. Extends(u, t, n.io) BY <1>4, <2>1, <2>2
  <2>4. OperandsRead(s.i.op, s.i.ac + 1) = OperandsRead(s.i.op, s.i.ac) BY <1>6 DEF OperandsRead
  <2>5. ReadIn(u, s.i.ac + 2) = b
    <3>1. Extends(u, t, Append(s.io, Read(p, b))) BY <2>2, <2>3
    <3> QED BY <1>2, <3>1, FetchedIn
  <2>6. InMode(n.i, s.i.ac + 1, u) BY <1>6, <2>2, <2>5 DEF InMode, ModeCycles, Located, Along, Same
  <2>7. Ticked(n, s, u) BY <2>2, <2>4, <2>6, ReadStep
  <2> QED BY <2>1, <2>7
<1>7. CASE s.i.ac = 2
  <2> DEFINE v == s.i.base + B * b
             n == SetBase(Also(s, Read(Up(p), b)), v)
  <2>1. IndirectIndexedTick(s, b) = AcDone(n)
    <3>1. Also(s, Read(Up(p), b)).i = s.i BY <1>2, <1>3, AlsoIs, ReadIs
    <3>2. IndirectIndexedTick(s, b)
            = AcDone([Also(s, Read(Up(p), b)) EXCEPT !.i.base = Also(s, Read(Up(p), b)).i.base + B * b])
      BY <1>7 DEF IndirectIndexedTick
    <3> QED BY <3>1, <3>2 DEF SetBase
  <2>2. v \in Int BY <1>3
  <2>3. ReadIn(t, 3) = s.i.base BY <1>7 DEF Ticking, InMode, Located
  <2>4. v = s.i.base + B * b OBVIOUS
  <2> HIDE DEF v
  <2>5. /\ n \in Moment /\ Along(n, s) /\ n.pc = s.pc /\ n.io = Append(s.io, Read(Up(p), b))
        /\ n.i.base = v
    BY <1>2, <1>3, <2>2, ReadIntoBase
  <2> HIDE DEF n
  <2>6. Extends(u, t, n.io) BY <1>4, <2>1, <2>5
  <2>7. OperandsRead(s.i.op, s.i.ac + 1) = OperandsRead(s.i.op, s.i.ac) BY <1>7 DEF OperandsRead
  <2>8. ReadIn(u, 4) = b /\ ReadIn(u, 3) = ReadIn(t, 3)
    <3>1. Extends(u, t, Append(s.io, Read(Up(p), b))) BY <2>5, <2>6
    <3>2. ReadIn(u, s.i.ac + 2) = b BY <1>2, <1>3, <3>1, FetchedIn
    <3>3. 3 \in 1 .. s.i.ac + 1 BY <1>7
    <3>4. ReadIn(u, 3) = ReadIn(t, 3) BY <2>6, <3>3, KeptIn
    <3> QED BY <1>7, <3>2, <3>4
  <2>9. n.i.base = WordIn(u, 3) BY <2>3, <2>4, <2>5, <2>8 DEF WordIn
  <2>10. InMode(n.i, s.i.ac + 1, u) BY <1>7, <2>5, <2>9 DEF InMode, ModeCycles, Located, Along, Same
  <2>11. Ticked(n, s, u) BY <2>5, <2>7, <2>10, ReadStep
  <2> QED BY <2>1, <2>11
<1>8. CASE s.i.ac = 3
  <2>1. IndirectIndexedTick(s, b) = AcDone(ReadIndexed(Indexed(s, s.i.base)))
    BY <1>8 DEF IndirectIndexedTick
  <2>2. Ticked(ReadIndexed(Indexed(s, s.i.base)), s, u) BY <1>8, IndirectIndexes
  <2> QED BY <2>1, <2>2
<1>9. CASE s.i.ac = 4
  <2>1. IndirectIndexedTick(s, b) = AcDone(ReadTarget(s)) BY <1>9 DEF IndirectIndexedTick
  <2>2. Located(s.i, s.i.ac + 1, u) BY <1>9, LocatedKept
  <2>3. OperandsRead(s.i.op, s.i.ac + 1) = OperandsRead(s.i.op, s.i.ac) BY <1>9 DEF OperandsRead
  <2>4. Quiet(ReadTarget(s), s) BY TickingIs, ReadsAreQuiet
  <2>5. Ticked(ReadTarget(s), s, u) BY <1>1, <2>2, <2>3, <2>4, QuietStep DEF InMode
  <2> QED BY <2>1, <2>5
<1> QED BY <1>1, <1>5, <1>6, <1>7, <1>8, <1>9

-----------------------------------------------------------------------------
\* One tick of whatever mode it is.
LEMMA ModeStep ==
  ASSUME NEW s, NEW t, NEW u, NEW b \in Byte, Ticking(s, t), Mode(s.i.op) \in Modes,
         Extends(u, t, ModeTick(s, b).io)
  PROVE  \E n : ModeTick(s, b) = AcDone(n) /\ Ticked(n, s, u)
<1>1. CASE Mode(s.i.op) = "imp" BY <1>1, ModeDoneIs DEF Ticking
<1>2. CASE Mode(s.i.op) = "imm" BY <1>2, ModeTickIs, ImmediateStep
<1>3. CASE Mode(s.i.op) = "zp" BY <1>3, ModeTickIs, ZeroPageStep
<1>4. CASE Mode(s.i.op) \in {"zpx", "zpy"} BY <1>4, ModeTickIs, ZeroPageXStep
<1>5. CASE Mode(s.i.op) = "abs" BY <1>5, ModeTickIs, AbsoluteStep
<1>6. CASE Mode(s.i.op) \in {"absx", "absy"}
  <2>1. ModeTick(s, b) \in {AbsoluteXTick(s, b), AbsoluteYTick(s, b)} BY <1>6, ModeTickIs
  <2>2. AbsoluteXTick(s, b) = AbsoluteYTick(s, b) BY DEF AbsoluteXTick, AbsoluteYTick
  <2> QED BY <1>6, <2>1, <2>2, AbsoluteXStep
<1>7. CASE Mode(s.i.op) = "ind" BY <1>7, ModeTickIs, IndirectStep
<1>8. CASE Mode(s.i.op) = "indx" BY <1>8, ModeTickIs, IndexedIndirectStep
<1>9. CASE Mode(s.i.op) = "indy" BY <1>9, ModeTickIs, IndirectIndexedStep
<1>10. CASE Mode(s.i.op) = "rel" BY <1>10, ModeTickIs, RelativeStep
<1> QED BY <1>1, <1>2, <1>3, <1>4, <1>5, <1>6, <1>7, <1>8, <1>9, <1>10 DEF Modes

\* The state after it.
LEMMA ModeTicks ==
  ASSUME NEW s, NEW t, NEW u, NEW b \in Byte, Ticking(s, t), Mode(s.i.op) \in Modes,
         Extends(u, t, ModeTick(s, b).io)
  PROVE  LET m == ModeTick(s, b)
         IN  /\ m \in Moment /\ m.sp = s.sp /\ Same(m.i, s.i) /\ m.i.ac = s.i.ac + 1
             /\ m.pc = Plus(s.i.from, 1 + OperandsRead(s.i.op, m.i.ac))
             /\ InMode(m.i, m.i.ac, u)
<1>1. PICK n : ModeTick(s, b) = AcDone(n) /\ Ticked(n, s, u) BY ModeStep
<1> DEFINE m == AcDone(n)
<1>2. n \in Moment /\ n.i \in Ins BY <1>1 DEF Ticked, Moment
<1>3. m \in Moment /\ m.pc = n.pc /\ m.sp = n.sp /\ m.i = [n.i EXCEPT !.ac = n.i.ac + 1] BY <1>2, AcDoneIs
<1> HIDE DEF m
<1>4. /\ Same(m.i, n.i) /\ m.i.ac = n.i.ac + 1 /\ m.i.addr = n.i.addr /\ m.i.base = n.i.base
      /\ m.i.crossed = n.i.crossed
  BY <1>2, <1>3 DEF Ins, Same
<1>5. m.i.ac = s.i.ac + 1 BY <1>1, <1>4 DEF Ticked
<1>6. InMode(m.i, m.i.ac, u) BY <1>1, <1>4, <1>5 DEF Ticked, InMode, ModeCycles, Located, Same
<1>7. Same(m.i, s.i) /\ m.sp = s.sp BY <1>1, <1>3, <1>4 DEF Ticked, Same
<1>8. m.pc = Plus(s.i.from, 1 + OperandsRead(s.i.op, m.i.ac)) BY <1>1, <1>3, <1>5 DEF Ticked
<1> QED BY <1>1, <1>3, <1>5, <1>6, <1>7, <1>8 DEF m

-----------------------------------------------------------------------------
(* How far an instruction type is. *)

Pushes == {"Php", "Pha"}
Pulls == {"Plp", "Pla"}

\* The ticks a type takes but for a branch, and those of an instruction's.
TypeLength(ty) ==
  IF ty \in Modifies \cup Pulls THEN 3
  ELSE IF ty \in Pushes THEN 2
  ELSE IF ty \in {"Jsr", "Rts", "Rti"} THEN 5
  ELSE IF ty = "Brk" THEN 6 ELSE 1
TypeCycles(i) ==
  IF Type(i.op) \notin Branches THEN TypeLength(Type(i.op))
  ELSE IF ~i.taken THEN 1 ELSE IF ~i.far THEN 2 ELSE 3

\* The next instruction of the program, once the operand is read.
Behind(i) == Plus(i.from, 1 + OperandsRead(i.op, i.ac))

\* What a type has done to pc and sp after i.ic ticks, from the bytes read in the cycles t.
BranchEffect(i, at, sp) ==
  /\ sp = i.sp
  /\ IF i.taken THEN at = i.addr /\ i.far = (Page(Behind(i)) # Page(i.addr)) ELSE at = Behind(i)
JmpEffect(i, at, sp) == sp = i.sp /\ at = i.addr
JsrEffect(i, at, sp, t) ==
  /\ sp = IF i.ic <= 2 THEN i.sp ELSE IF i.ic = 3 THEN Down(i.sp) ELSE Down(Down(i.sp))
  /\ i.word = ReadIn(t, 2)
  /\ at = IF i.ic = 5 THEN i.word + B * ReadIn(t, 6) ELSE Plus(i.from, 2)
RtsEffect(i, at, sp, t) ==
  /\ sp = IF i.ic <= 1 THEN i.sp ELSE IF i.ic = 2 THEN Up(i.sp) ELSE Up(Up(i.sp))
  /\ i.ic = 3 => Low(at) = ReadIn(t, 4)
  /\ i.ic = 4 => at = WordIn(t, 4)
  /\ i.ic = 5 => at = Plus(WordIn(t, 4), 1)
RtiEffect(i, at, sp, t) ==
  /\ sp = IF i.ic <= 1 THEN i.sp ELSE IF i.ic = 2 THEN Up(i.sp)
          ELSE IF i.ic = 3 THEN Up(Up(i.sp)) ELSE Up(Up(Up(i.sp)))
  /\ i.ic = 4 => i.word = ReadIn(t, 5)
  /\ i.ic = 5 => at = WordIn(t, 5)
BrkEffect(i, at, sp, t) ==
  /\ sp = IF i.ic <= 1 THEN i.sp ELSE IF i.ic = 2 THEN Down(i.sp)
          ELSE IF i.ic = 3 THEN Down(Down(i.sp)) ELSE Down(Down(Down(i.sp)))
  /\ i.ic = 5 => at = Last(t[6])[3]
  /\ i.ic = 6 => at = Last(t[6])[3] + B * ReadIn(t, 7)
StackEffect(i, at, sp) ==
  /\ at = Behind(i)
  /\ sp = IF i.ic <= 1 THEN i.sp ELSE IF Type(i.op) \in Pushes THEN Down(i.sp) ELSE Up(i.sp)
PlainEffect(i, at, sp) ==
  /\ at = Behind(i)
  /\ sp = IF Type(i.op) \in {"Xas", "Txs"} THEN i.mask
          ELSE IF Type(i.op) = "Lar" THEN BitAnd(i.sp, i.mask) ELSE i.sp

Effect(i, at, sp, t) ==
  LET ty == Type(i.op)
  IN  IF ty \in Branches THEN BranchEffect(i, at, sp)
      ELSE IF ty = "Jmp" THEN JmpEffect(i, at, sp)
      ELSE IF ty = "Jsr" THEN JsrEffect(i, at, sp, t)
      ELSE IF ty = "Rts" THEN RtsEffect(i, at, sp, t)
      ELSE IF ty = "Rti" THEN RtiEffect(i, at, sp, t)
      ELSE IF ty = "Brk" THEN BrkEffect(i, at, sp, t)
      ELSE IF ty \in Pushes \cup Pulls THEN StackEffect(i, at, sp) ELSE PlainEffect(i, at, sp)

Started(i, at, sp, t) ==
  IF i.ic = 0 THEN at = Behind(i) /\ sp = i.sp /\ ~i.taken
  ELSE i.ic \in 1 .. TypeCycles(i) /\ Effect(i, at, sp, t)
-----------------------------------------------------------------------------
(* The invariant. *)

\* The cycles an instruction has had: the first tick of the type shares one with the mode.
Elapsed(i) == IF i.ac > 0 /\ i.ic > 0 THEN i.ac + i.ic ELSE 1 + i.ac + i.ic

BusTypes ==
  /\ cpu \in [pc : Int, sp : Byte, halted : BOOLEAN, busy : BOOLEAN]
  /\ ins \in Ins /\ ins.sp \in Byte /\ ins.mask \in Byte /\ ins.ic \in Nat
  /\ trace \in Seq(Seq(Bus))

\* s runs an instruction, and the cycles it has had have left the trace t.
Running(s, t) ==
  /\ s \in Moment /\ s.sp \in Byte /\ s.i.sp \in Byte /\ s.i.mask \in Byte /\ s.i.ic \in Nat
  /\ t \in Seq(Seq(Bus)) /\ s.i.op \in 0..255 /\ Len(t) = Elapsed(s.i)
  /\ InMode(s.i, s.i.ac, t)
  /\ (s.i.ic > 0 => ModeDone(s)) /\ (s.i.ac > 0 /\ ModeDone(s) => s.i.ic > 0)
  /\ Started(s.i, s.pc, s.sp, t)

InstructionInv ==
  /\ Running(State, trace)
  /\ cpu.busy <=> ~InstructionDone(State)
  /\ cpu.halted <=> Type(ins.op) = "Kil"

BusInv ==
  /\ BusTypes
  /\ cpu.busy /\ ~cpu.halted => ins.op # NoOpcode
  /\ ins.op # NoOpcode => InstructionInv
-----------------------------------------------------------------------------
(* What a tick of a type may do to the state of its cycle. *)

SetPc(s, n) == [s EXCEPT !.pc = n]
SetSp(s, n) == [s EXCEPT !.sp = n]
SetWord(s, n) == [s EXCEPT !.i.word = n]

LEMMA PutPc ==
  ASSUME NEW s \in Moment, NEW n \in Int
  PROVE  /\ SetPc(s, n) \in Moment /\ SetPc(s, n).pc = n /\ SetPc(s, n).sp = s.sp
         /\ SetPc(s, n).i = s.i /\ SetPc(s, n).io = s.io
BY DEF SetPc, Moment

LEMMA PutSp ==
  ASSUME NEW s \in Moment, NEW n \in Int
  PROVE  /\ SetSp(s, n) \in Moment /\ SetSp(s, n).pc = s.pc /\ SetSp(s, n).sp = n
         /\ SetSp(s, n).i = s.i /\ SetSp(s, n).io = s.io
BY DEF SetSp, Moment

LEMMA PutWord ==
  ASSUME NEW s \in Moment, NEW n \in Int
  PROVE  /\ SetWord(s, n) \in Moment /\ SetWord(s, n).pc = s.pc /\ SetWord(s, n).sp = s.sp
         /\ SetWord(s, n).i = [s.i EXCEPT !.word = n] /\ SetWord(s, n).io = s.io
<1>1. s.i \in Ins BY DEF Moment
<1>2. [s.i EXCEPT !.word = n] \in Ins BY <1>1 DEF Ins
<1>3. SetWord(s, n) = [s EXCEPT !.i = [s.i EXCEPT !.word = n]] BY DEF SetWord
<1> QED BY <1>1, <1>2, <1>3 DEF Moment

LEMMA Steps == \A k \in Int : Up(k) \in Byte /\ Down(k) \in Byte
BY SizeAssumption, Z3 DEF Up, Down, Byte

\* What every type leaves alone: all but BRK and the branches have no other state than word.
Kept(i, j) ==
  /\ i.op = j.op /\ i.from = j.from /\ i.sp = j.sp /\ i.index = j.index /\ i.mask = j.mask
  /\ i.ac = j.ac /\ i.addr = j.addr /\ i.crossed = j.crossed /\ i.ic = j.ic
  /\ Type(j.op) # "Brk" => i.base = j.base

\* The accesses of a mode come before those of a type.
Begins(x, y) == y # <<>> => x # <<>> /\ x[1] = y[1]

LEMMA AppendBegins == \A io \in Seq(Bus) : \A x \in Bus : Begins(Append(io, x), io)
BY DEF Begins

\* s before a tick of a type, v after it.
Acted(v, s, at, sp) ==
  /\ v \in Moment /\ v.pc = at /\ v.sp = sp /\ Begins(v.io, s.io) /\ Kept(v.i, s.i)

LEMMA AlsoActs ==
  ASSUME NEW s \in Moment, NEW x \in Bus
  PROVE  /\ Acted(Also(s, x), s, s.pc, s.sp) /\ Acted(s, s, s.pc, s.sp)
         /\ Also(s, x).io = Append(s.io, x) /\ Also(s, x).i = s.i
<1>1. s.io \in Seq(Bus) BY DEF Moment
<1> DEFINE v == Also(s, x)
<1>2. v \in Moment /\ v.pc = s.pc /\ v.sp = s.sp /\ v.i = s.i /\ v.io = Append(s.io, x) BY AlsoIs
<1>3. Begins(v.io, s.io) BY <1>1, <1>2, AppendBegins
<1> HIDE DEF v
<1>4. Acted(v, s, s.pc, s.sp) BY <1>2, <1>3 DEF Acted, Kept
<1>5. Acted(s, s, s.pc, s.sp) BY DEF Acted, Kept, Begins
<1> QED BY <1>2, <1>4, <1>5 DEF v

LEMMA PcActs ==
  ASSUME NEW s \in Moment, NEW v, NEW at, NEW sp, Acted(v, s, at, sp), NEW n \in Int
  PROVE  Acted(SetPc(v, n), s, n, sp) /\ SetPc(v, n).i = v.i /\ SetPc(v, n).io = v.io
BY PutPc DEF Acted

LEMMA SpActs ==
  ASSUME NEW s \in Moment, NEW v, NEW at, NEW sp, Acted(v, s, at, sp), NEW n \in Int
  PROVE  Acted(SetSp(v, n), s, at, n) /\ SetSp(v, n).i = v.i /\ SetSp(v, n).io = v.io
BY PutSp DEF Acted

LEMMA WordActs ==
  ASSUME NEW s \in Moment, NEW v, NEW at, NEW sp, Acted(v, s, at, sp), NEW n \in Int
  PROVE  Acted(SetWord(v, n), s, at, sp) /\ SetWord(v, n).i.word = n /\ SetWord(v, n).io = v.io
<1>1. v \in Moment /\ v.i \in Ins BY DEF Acted, Moment
<1>2. /\ SetWord(v, n) \in Moment /\ SetWord(v, n).pc = v.pc /\ SetWord(v, n).sp = v.sp
      /\ SetWord(v, n).i = [v.i EXCEPT !.word = n] /\ SetWord(v, n).io = v.io
  BY <1>1, PutWord
<1>3. Kept(SetWord(v, n).i, v.i) /\ SetWord(v, n).i.word = n BY <1>1, <1>2 DEF Ins, Kept
<1> QED BY <1>2, <1>3 DEF Acted, Kept

LEMMA PushActs ==
  ASSUME NEW s \in Moment, NEW n \in Int
  PROVE  Acted(Push(s, n), s, s.pc, Down(s.sp)) /\ Push(s, n).i = s.i
<1>1. Stack(s.sp) \in Int /\ Down(s.sp) \in Int
  <2>1. s.sp \in Int BY DEF Moment
  <2>2. s.sp + B \in Int /\ B \in Int BY <2>1, BytesAre
  <2>3. Low(s.sp + B) \in Int BY <2>2, BytesAre
  <2>4. Stack(s.sp) \in Int BY <2>2, <2>3 DEF Stack, Low
  <2>5. Down(s.sp) \in Int BY <2>1, BytesAre, Steps
  <2> QED BY <2>4, <2>5
<1> DEFINE x == Write(Stack(s.sp), n)
           v == Also(s, x)
<1>2. x \in Bus BY <1>1, ReadIs
<1> HIDE DEF x
<1>3. Acted(v, s, s.pc, s.sp) /\ v.i = s.i /\ v.sp = s.sp BY <1>2, AlsoActs DEF Acted
<1>4. Push(s, n) = SetSp(v, Down(v.sp)) BY DEF Push, SetSp, x
<1> HIDE DEF v
<1> QED BY <1>1, <1>3, <1>4, SpActs

LEMMA PullActs ==
  ASSUME NEW s \in Moment, NEW b \in Int
  PROVE  /\ Acted(Pull(s, b), s, s.pc, s.sp) /\ Pull(s, b).i = s.i
         /\ \E a \in Int : Pull(s, b).io = Append(s.io, Read(a, b))
<1>1. Stack(s.sp) \in Int
  <2>1. s.sp \in Int BY DEF Moment
  <2>2. s.sp + B \in Int /\ B \in Int BY <2>1, BytesAre
  <2>3. Low(s.sp + B) \in Int BY <2>2, BytesAre
  <2> QED BY <2>2, <2>3 DEF Stack, Low
<1>2. Read(Stack(s.sp), b) \in Bus BY <1>1, ReadIs
<1> QED BY <1>1, <1>2, AlsoActs DEF Pull

LEMMA SpUpActs ==
  ASSUME NEW s \in Moment, NEW v, NEW at, NEW sp, Acted(v, s, at, sp)
  PROVE  Acted(SpUp(v), s, at, Up(sp)) /\ SpUp(v).i = v.i /\ SpUp(v).io = v.io
<1>1. SpUp(v) = SetSp(v, Up(v.sp)) BY DEF SpUp, SetSp
<1>2. v.sp = sp /\ sp \in Int BY DEF Acted, Moment
<1>3. Up(sp) \in Int BY <1>2, Steps, BytesAre
<1> QED BY <1>1, <1>2, <1>3, SpActs

LEMMA PlusIs == \A a, n \in Int : Plus(a, n) \in Int
BY BytesAre
LEMMA WordIs == \A w, b \in Int : w + B * b \in Int
<1>1. ASSUME NEW w \in Int, NEW b \in Int PROVE w + B * b \in Int
  <2>1. B * b \in Int BY BytesAre
  <2> QED BY <2>1
<1> QED BY <1>1
LEMMA PageIs == \A a \in Int : Page(a) \in Int /\ Low(a) \in Byte /\ Low(a) \in Int
BY SizeAssumption, Z3 DEF Byte, Page, Low
LEMMA ByteIs == \A b \in Byte : b \in Int
BY DEF Byte

\* A type before one of its ticks, when the cycles before this one have left the trace t.
Acting(s, t) ==
  /\ s \in Moment /\ s.sp \in Byte /\ s.i.sp \in Byte /\ s.i.mask \in Byte
  /\ s.i.ic \in 0 .. TypeCycles(s.i) - 1 /\ Started(s.i, s.pc, s.sp, t)
  /\ Mode(s.i.op) = "imp" => s.io = <<>> /\ s.i.ac = 0 /\ Len(t) = s.i.ic + 1

\* The same instruction, once the tick is counted.
Later(j, i) ==
  /\ j.op = i.op /\ j.from = i.from /\ j.sp = i.sp /\ j.index = i.index /\ j.mask = i.mask
  /\ j.ac = i.ac /\ j.base = i.base /\ j.addr = i.addr /\ j.crossed = i.crossed
  /\ j.taken = i.taken /\ j.far = i.far /\ j.word = i.word /\ j.ic = i.ic + 1

LEMMA ActingIs ==
  ASSUME NEW s, NEW t, Acting(s, t)
  PROVE  /\ s \in Moment /\ s.i \in Ins /\ s.pc \in Int /\ s.sp \in Int /\ s.io \in Seq(Bus)
         /\ s.i.ic \in Nat /\ s.i.from \in Int /\ s.i.sp \in Int /\ s.i.word \in Int /\ s.i.addr \in Int
         /\ s.i.base \in Int
<1>1. s.i.ic \in Nat
  <2>1. TypeCycles(s.i) - 1 \in Int BY DEF TypeCycles, TypeLength
  <2> QED BY <2>1 DEF Acting
<1> QED BY <1>1, ByteIs DEF Acting, Moment, Ins

LEMMA IcDoneIs ==
  ASSUME NEW s \in Moment
  PROVE  /\ IcDone(s) \in Moment /\ Later(IcDone(s).i, s.i)
         /\ IcDone(s).pc = s.pc /\ IcDone(s).sp = s.sp /\ IcDone(s).io = s.io
<1>1. s.i \in Ins /\ s.i.ic + 1 \in Int BY DEF Moment, Ins
<1> DEFINE j == [s.i EXCEPT !.ic = s.i.ic + 1]
<1>2. j \in Ins /\ Later(j, s.i) BY <1>1 DEF Ins, Later
<1>3. IcDone(s) = [s EXCEPT !.i = j] BY DEF IcDone
<1> HIDE DEF j
<1> QED BY <1>2, <1>3 DEF Moment

\* A byte that a type reads in this cycle, and those read before.
LEMMA ReadAt ==
  ASSUME NEW s, NEW t, NEW u, NEW a \in Int, NEW b \in Int, Acting(s, t), Mode(s.i.op) = "imp",
         Extends(u, t, Append(s.io, Read(a, b)))
  PROVE  ReadIn(u, s.i.ic + 2) = b
<1>1. s.io = <<>> /\ Read(a, b) \in Bus BY ReadIs DEF Acting
<1>2. Append(s.io, Read(a, b)) # <<>> /\ Append(s.io, Read(a, b))[1] = Read(a, b) BY <1>1, FirstAccess
<1>3. u[s.i.ic + 2][1] = Read(a, b) BY <1>2, ActingIs DEF Extends, Acting
<1> QED BY <1>3 DEF ReadIn, Read

LEMMA KeptAt ==
  ASSUME NEW s, NEW t, NEW u, NEW io, Acting(s, t), Mode(s.i.op) = "imp", Extends(u, t, io),
         NEW c \in 1 .. s.i.ic + 1
  PROVE  ReadIn(u, c) = ReadIn(t, c) /\ u[c] = t[c]
BY ActingIs DEF Extends, Acting, ReadIn


LEMMA Ready ==
  ASSUME NEW s, NEW t, Acting(s, t), NEW b \in Byte
  PROVE  /\ s \in Moment /\ s.i \in Ins /\ s.pc \in Int /\ s.sp \in Int /\ s.i.ic \in Nat
         /\ s.i.from \in Int /\ s.i.word \in Int /\ b \in Int /\ Plus(s.pc, 1) \in Int
         /\ Read(s.pc, b) \in Bus /\ Peek(s.pc) \in Bus
<1>1. s.pc \in Int /\ b \in Int BY ActingIs, ByteIs
<1>2. Plus(s.pc, 1) \in Int
  <2>1. \A n \in Int : Plus(s.pc, n) \in Int BY <1>1, PlusIs
  <2> QED BY <2>1
<1>3. Read(s.pc, b) \in Bus /\ Peek(s.pc) \in Bus BY <1>1, ReadIs
<1> QED BY <1>1, <1>2, <1>3, ActingIs

\* A tick of a type: s before it, v after it.
Acts(v, s, u) ==
  Acted(v, s, v.pc, v.sp) /\ \A j : Later(j, v.i) => Effect(j, v.pc, v.sp, u)

LEMMA JsrStep ==
  ASSUME NEW s, NEW t, NEW u, NEW b \in Byte, Acting(s, t), Type(s.i.op) = "Jsr", Mode(s.i.op) = "imp",
         Extends(u, t, JsrTick(s, b).io)
  PROVE  Acts(JsrTick(s, b), s, u)
<1> DEFINE v == JsrTick(s, b)
           k == s.i.ic
<1>1. /\ s \in Moment /\ s.i \in Ins /\ s.pc \in Int /\ s.sp \in Int /\ k \in Nat
      /\ s.i.from \in Int /\ s.i.word \in Int /\ b \in Int /\ Plus(s.pc, 1) \in Int
      /\ Read(s.pc, b) \in Bus
  BY Ready
<1>2. k \in 0..4 BY DEF Acting, TypeCycles, TypeLength, Branches, Modifies, Rotates, Pushes, Pulls
<1>3. /\ k = 0 => s.pc = Plus(s.i.from, 1) /\ s.sp = s.i.sp
      /\ k > 0 => JsrEffect(s.i, s.pc, s.sp, t)
  BY <1>1 DEF Acting, Started, Effect, Branches, Behind, OperandsRead
<1>4. ASSUME NEW at, NEW sp, Acted(v, s, at, sp),
             sp = IF k <= 1 THEN s.i.sp ELSE IF k = 2 THEN Down(s.i.sp) ELSE Down(Down(s.i.sp)),
             v.i.word = ReadIn(u, 2),
             at = IF k = 4 THEN v.i.word + B * ReadIn(u, 6) ELSE Plus(s.i.from, 2)
      PROVE  Acts(JsrTick(s, b), s, u)
  <2> HIDE DEF v
  <2>1. v.pc = at /\ v.sp = sp /\ Kept(v.i, s.i) BY <1>4 DEF Acted
  <2>2. ASSUME NEW j, Later(j, v.i) PROVE JsrEffect(j, v.pc, v.sp, u)
    <3>1. j.ic = k + 1 /\ j.from = s.i.from /\ j.sp = s.i.sp /\ j.word = v.i.word
      BY <2>1, <2>2 DEF Kept, Later
    <3> QED BY <1>1, <1>4, <2>1, <3>1 DEF JsrEffect
  <2>3. ASSUME NEW j, Later(j, v.i) PROVE Effect(j, v.pc, v.sp, u)
    <3>1. j.op = s.i.op BY <2>1, <2>3 DEF Kept, Later
    <3> QED BY <2>2, <2>3, <3>1 DEF Effect, Branches
  <2> QED BY <1>4, <2>1, <2>3 DEF Acts, v
<1>5. ASSUME k > 0 PROVE s.i.word = ReadIn(u, 2)
  BY <1>1, <1>3, <1>5, KeptAt DEF JsrEffect
<1>6. CASE k = 0
  <2> DEFINE o == Operand(s, b)
             r == Also(s, Read(s.pc, b))
  <2>1. v = SetWord(o, b) BY <1>6 DEF JsrTick, SetWord
  <2>2. r.pc = s.pc /\ o = SetPc(r, Plus(r.pc, 1)) BY <1>1, AlsoIs DEF Operand, Advance, SetPc
  <2>3. Acted(r, s, s.pc, s.sp) BY <1>1, AlsoActs
  <2>4. o.io = Append(s.io, Read(s.pc, b)) BY <1>1, OperandIs
  <2> HIDE DEF o, r
  <2>5. Acted(o, s, Plus(s.pc, 1), s.sp) BY <1>1, <2>2, <2>3, PcActs
  <2>6. Acted(v, s, Plus(s.pc, 1), s.sp) /\ v.i.word = b /\ v.io = o.io
    <3>1. s \in Moment /\ b \in Int BY <1>1
    <3> HIDE DEF v
    <3>2. Acted(SetWord(o, b), s, Plus(s.pc, 1), s.sp) /\ SetWord(o, b).i.word = b /\ SetWord(o, b).io = o.io
      BY <2>5, <3>1, WordActs
    <3> QED BY <2>1, <3>2
  <2>7. ReadIn(u, 2) = b
    <3>1. Extends(u, t, Append(s.io, Read(s.pc, b))) BY <2>4, <2>6
    <3>2. ReadIn(u, s.i.ic + 2) = b BY <1>1, <3>1, ReadAt
    <3> QED BY <1>6, <3>2
  <2>8. Plus(s.pc, 1) = Plus(s.i.from, 2) BY <1>1, <1>3, <1>6, PlusOne
  <2> HIDE DEF v
  <2> QED BY <1>3, <1>4, <1>6, <2>6, <2>7, <2>8
<1>7. CASE k = 1
  <2>1. v = s BY <1>7 DEF JsrTick
  <2>2. Acted(s, s, s.pc, s.sp) BY <1>1, AlsoActs
  <2>3. s.pc = Plus(s.i.from, 2) /\ s.sp = s.i.sp BY <1>3, <1>7 DEF JsrEffect
  <2> HIDE DEF v
  <2> QED BY <1>4, <1>5, <1>7, <2>1, <2>2, <2>3
<1>8. CASE k \in {2, 3}
  <2> DEFINE x == IF k = 2 THEN Page(s.pc) ELSE Low(s.pc)
  <2>1. v = Push(s, x) BY <1>8 DEF JsrTick
  <2>2. x \in Int BY <1>1, PageIs
  <2> HIDE DEF x, v
  <2>3. Acted(v, s, s.pc, Down(s.sp)) /\ v.i = s.i BY <1>1, <2>1, <2>2, PushActs
  <2>4. s.pc = Plus(s.i.from, 2) /\ s.sp = IF k = 2 THEN s.i.sp ELSE Down(s.i.sp)
    BY <1>3, <1>8 DEF JsrEffect
  <2> QED BY <1>4, <1>5, <1>8, <2>3, <2>4
<1>9. CASE k = 4
  <2> DEFINE o == Also(s, Read(s.pc, b))
             n == s.i.word + B * b
  <2>1. v = SetPc(o, n) BY <1>9 DEF JsrTick, SetPc
  <2>2. n \in Int BY <1>1, WordIs
  <2>3. Acted(o, s, s.pc, s.sp) /\ o.i = s.i /\ o.io = Append(s.io, Read(s.pc, b)) BY <1>1, AlsoActs
  <2> HIDE DEF o, v
  <2>4. Acted(v, s, n, s.sp) /\ v.i = s.i /\ v.io = o.io
    <3> HIDE DEF n
    <3> QED BY <1>1, <2>1, <2>2, <2>3, PcActs
  <2>5. Extends(u, t, Append(s.io, Read(s.pc, b))) BY <2>3, <2>4 DEF v
  <2>6. ReadIn(u, s.i.ic + 2) = b BY <1>1, <2>5, ReadAt
  <2>7. s.sp = Down(Down(s.i.sp)) BY <1>3, <1>9 DEF JsrEffect
  <2>8. n = v.i.word + B * ReadIn(u, 6) BY <1>9, <2>4, <2>6
  <2> HIDE DEF n
  <2> QED BY <1>4, <1>5, <1>9, <2>4, <2>7, <2>8
<1> QED BY <1>2, <1>6, <1>7, <1>8, <1>9

LEMMA LowOf == \A x \in Int : \A b \in Byte : Low(B * x + b) = b /\ B * x + b \in Int
BY SizeAssumption, Z3 DEF Byte, Low

LEMMA WordOf == \A x, b \in Int : B * b + x = x + B * b /\ x + B * b \in Int
<1>1. ASSUME NEW x \in Int, NEW b \in Int PROVE B * b + x = x + B * b /\ x + B * b \in Int
  <2>1. B * b \in Int BY BytesAre
  <2> QED BY <2>1
<1> QED BY <1>1

LEMMA RtsStep ==
  ASSUME NEW s, NEW t, NEW u, NEW b \in Byte, Acting(s, t), Type(s.i.op) = "Rts", Mode(s.i.op) = "imp",
         Extends(u, t, RtsTick(s, b).io)
  PROVE  Acts(RtsTick(s, b), s, u)
<1> DEFINE v == RtsTick(s, b)
           k == s.i.ic
<1>1. /\ s \in Moment /\ s.i \in Ins /\ s.pc \in Int /\ s.sp \in Int /\ k \in Nat
      /\ b \in Int /\ Plus(s.pc, 1) \in Int /\ Peek(s.pc) \in Bus
  BY Ready
<1>2. k \in 0..4 BY DEF Acting, TypeCycles, TypeLength, Branches, Modifies, Rotates, Pushes, Pulls
<1>3. /\ k = 0 => s.sp = s.i.sp
      /\ k > 0 => RtsEffect(s.i, s.pc, s.sp, t)
  BY <1>1 DEF Acting, Started, Effect, Branches
<1>4. ASSUME NEW at, NEW sp, Acted(v, s, at, sp),
             sp = IF k = 0 THEN s.i.sp ELSE IF k = 1 THEN Up(s.i.sp) ELSE Up(Up(s.i.sp)),
             k = 2 => Low(at) = ReadIn(u, 4), k = 3 => at = WordIn(u, 4),
             k = 4 => at = Plus(WordIn(u, 4), 1)
      PROVE  Acts(RtsTick(s, b), s, u)
  <2> HIDE DEF v
  <2>1. v.pc = at /\ v.sp = sp /\ Kept(v.i, s.i) BY <1>4 DEF Acted
  <2>2. ASSUME NEW j, Later(j, v.i) PROVE Effect(j, v.pc, v.sp, u)
    <3>1. j.ic = k + 1 /\ j.sp = s.i.sp /\ j.op = s.i.op BY <2>1, <2>2 DEF Kept, Later
    <3>2. RtsEffect(j, v.pc, v.sp, u) BY <1>1, <1>4, <2>1, <3>1 DEF RtsEffect
    <3> QED BY <3>1, <3>2 DEF Effect, Branches
  <2> QED BY <1>4, <2>1, <2>2 DEF Acts, v
<1>5. CASE k = 0
  <2>1. v = Also(s, Peek(s.pc)) BY <1>5 DEF RtsTick
  <2> HIDE DEF v
  <2>2. Acted(v, s, s.pc, s.sp) BY <1>1, <2>1, AlsoActs
  <2> QED BY <1>3, <1>4, <1>5, <2>2
<1>6. CASE k = 1
  <2>1. v = SpUp(s) BY <1>6 DEF RtsTick
  <2>2. Acted(s, s, s.pc, s.sp) BY <1>1, AlsoActs
  <2> HIDE DEF v
  <2>3. Acted(v, s, s.pc, Up(s.sp)) BY <1>1, <2>1, <2>2, SpUpActs
  <2>4. s.sp = s.i.sp BY <1>3, <1>6 DEF RtsEffect
  <2> QED BY <1>4, <1>6, <2>3, <2>4
<1>7. CASE k \in {2, 3}
  <2> DEFINE p == Pull(s, b)
             n == IF k = 2 THEN B * Page(s.pc) + b ELSE B * b + Low(s.pc)
             q == SetPc(p, n)
  <2>1. /\ Acted(p, s, s.pc, s.sp) /\ p.i = s.i
        /\ \E a \in Int : p.io = Append(s.io, Read(a, b))
    BY <1>1, PullActs
  <2>2. p.pc = s.pc BY <2>1 DEF Acted
  <2>3. v = IF k = 2 THEN SpUp(q) ELSE q BY <1>7, <2>2 DEF RtsTick, SetPc
  <2>4. n \in Int /\ (k = 2 => Low(n) = b)
    <3>1. Page(s.pc) \in Int /\ Low(s.pc) \in Int BY <1>1, PageIs
    <3> QED BY <1>1, <3>1, LowOf, WordOf
  <2>5. k = 3 => n = Low(s.pc) + B * b
    <3>1. Low(s.pc) \in Int BY <1>1, PageIs
    <3>2. B * b + Low(s.pc) = Low(s.pc) + B * b BY <1>1, <3>1, WordOf
    <3> QED BY <3>2
  <2> HIDE DEF p, v, n
  <2>6. Acted(q, s, n, s.sp) /\ q.io = p.io
    <3>1. s \in Moment /\ n \in Int /\ Acted(p, s, s.pc, s.sp) BY <1>1, <2>1, <2>4
    <3> QED BY <3>1, PcActs
  <2> HIDE DEF q
  <2>7. Acted(SpUp(q), s, n, Up(s.sp)) /\ SpUp(q).io = p.io BY <1>1, <2>6, SpUpActs
  <2>8. Acted(v, s, n, IF k = 2 THEN Up(s.sp) ELSE s.sp) /\ v.io = p.io BY <2>3, <2>6, <2>7
  <2>9. ReadIn(u, k + 2) = b
    <3>1. PICK a \in Int : Extends(u, t, Append(s.io, Read(a, b))) BY <2>1, <2>8 DEF v
    <3> QED BY <1>1, <3>1, ReadAt
  <2>10. k = 3 => ReadIn(u, 4) = ReadIn(t, 4) BY <1>1, KeptAt
  <2>11. RtsEffect(s.i, s.pc, s.sp, t) BY <1>3, <1>7
  <2>12. k = 2 => Low(n) = ReadIn(u, 4) BY <2>4, <2>9
  <2>13. k = 3 => n = WordIn(u, 4)
    <3>1. k = 3 => Low(s.pc) = ReadIn(u, 4) /\ ReadIn(u, 5) = b BY <2>9, <2>10, <2>11 DEF RtsEffect
    <3> QED BY <2>5, <3>1 DEF WordIn
  <2>14. (IF k = 2 THEN Up(s.sp) ELSE s.sp) = Up(Up(s.i.sp)) BY <1>7, <2>11 DEF RtsEffect
  <2> QED BY <1>4, <1>7, <2>8, <2>12, <2>13, <2>14
<1>8. CASE k = 4
  <2>1. v = SetPc(s, Plus(s.pc, 1)) BY <1>8 DEF RtsTick, Advance, SetPc
  <2>2. Acted(s, s, s.pc, s.sp) BY <1>1, AlsoActs
  <2>3. RtsEffect(s.i, s.pc, s.sp, t) BY <1>3, <1>8
  <2>4. s.pc = WordIn(t, 4) /\ s.sp = Up(Up(s.i.sp)) BY <1>8, <2>3 DEF RtsEffect
  <2>5. WordIn(u, 4) = WordIn(t, 4)
    <3>1. 4 \in 1 .. s.i.ic + 1 /\ 5 \in 1 .. s.i.ic + 1 BY <1>8
    <3>2. ReadIn(u, 4) = ReadIn(t, 4) /\ ReadIn(u, 5) = ReadIn(t, 5) BY <3>1, KeptAt
    <3> QED BY <3>2 DEF WordIn
  <2> HIDE DEF v
  <2>6. Acted(v, s, Plus(s.pc, 1), s.sp) BY <1>1, <2>1, <2>2, PcActs
  <2> QED BY <1>4, <1>8, <2>4, <2>5, <2>6
<1> QED BY <1>2, <1>5, <1>6, <1>7, <1>8

LEMMA RtiStep ==
  ASSUME NEW s, NEW t, NEW u, NEW b \in Byte, Acting(s, t), Type(s.i.op) = "Rti", Mode(s.i.op) = "imp",
         Extends(u, t, RtiTick(s, b).io)
  PROVE  Acts(RtiTick(s, b), s, u)
<1> DEFINE v == RtiTick(s, b)
           k == s.i.ic
<1>1. /\ s \in Moment /\ s.i \in Ins /\ s.pc \in Int /\ s.sp \in Int /\ k \in Nat
      /\ b \in Int /\ s.i.word \in Int /\ Peek(s.pc) \in Bus
  BY Ready
<1>2. k \in 0..4 BY DEF Acting, TypeCycles, TypeLength, Branches, Modifies, Rotates, Pushes, Pulls
<1>3. /\ k = 0 => s.sp = s.i.sp
      /\ k > 0 => RtiEffect(s.i, s.pc, s.sp, t)
  BY <1>1 DEF Acting, Started, Effect, Branches
<1>4. ASSUME NEW at, NEW sp, Acted(v, s, at, sp),
             sp = IF k = 0 THEN s.i.sp ELSE IF k = 1 THEN Up(s.i.sp)
                  ELSE IF k = 2 THEN Up(Up(s.i.sp)) ELSE Up(Up(Up(s.i.sp))),
             k = 3 => v.i.word = ReadIn(u, 5), k = 4 => at = WordIn(u, 5)
      PROVE  Acts(RtiTick(s, b), s, u)
  <2> HIDE DEF v
  <2>1. v.pc = at /\ v.sp = sp /\ Kept(v.i, s.i) BY <1>4 DEF Acted
  <2>2. ASSUME NEW j, Later(j, v.i) PROVE Effect(j, v.pc, v.sp, u)
    <3>1. j.ic = k + 1 /\ j.sp = s.i.sp /\ j.op = s.i.op /\ j.word = v.i.word
      BY <2>1, <2>2 DEF Kept, Later
    <3>2. RtiEffect(j, v.pc, v.sp, u) BY <1>1, <1>4, <2>1, <3>1 DEF RtiEffect
    <3> QED BY <3>1, <3>2 DEF Effect, Branches
  <2> QED BY <1>4, <2>1, <2>2 DEF Acts, v
<1>5. CASE k = 0
  <2>1. v = Also(s, Peek(s.pc)) BY <1>5 DEF RtiTick
  <2> HIDE DEF v
  <2>2. Acted(v, s, s.pc, s.sp) BY <1>1, <2>1, AlsoActs
  <2> QED BY <1>3, <1>4, <1>5, <2>2
<1>6. CASE k = 1
  <2>1. v = SpUp(s) BY <1>6 DEF RtiTick
  <2>2. Acted(s, s, s.pc, s.sp) BY <1>1, AlsoActs
  <2> HIDE DEF v
  <2>3. Acted(v, s, s.pc, Up(s.sp)) BY <1>1, <2>1, <2>2, SpUpActs
  <2>4. s.sp = s.i.sp BY <1>3, <1>6 DEF RtiEffect
  <2> QED BY <1>4, <1>6, <2>3, <2>4
<1>7. CASE k = 2
  <2>1. v = SpUp(Pull(s, 0)) BY <1>7 DEF RtiTick
  <2>2. Acted(Pull(s, 0), s, s.pc, s.sp) BY <1>1, PullActs
  <2> HIDE DEF v
  <2>3. Acted(v, s, s.pc, Up(s.sp)) BY <1>1, <2>1, <2>2, SpUpActs
  <2>4. s.sp = Up(s.i.sp) BY <1>3, <1>7 DEF RtiEffect
  <2> QED BY <1>4, <1>7, <2>3, <2>4
<1>8. CASE k \in {3, 4}
  <2> DEFINE p == Pull(s, b)
             q == SetWord(p, b)
             n == B * b + s.i.word
  <2>1. /\ Acted(p, s, s.pc, s.sp) /\ p.i = s.i
        /\ \E a \in Int : p.io = Append(s.io, Read(a, b))
    BY <1>1, PullActs
  <2>2. v = IF k = 3 THEN SpUp(q) ELSE SetPc(p, n) BY <1>8 DEF RtiTick, SetPc, SetWord
  <2>3. n \in Int /\ n = s.i.word + B * b BY <1>1, WordOf
  <2> HIDE DEF p, v, n
  <2>4. Acted(q, s, s.pc, s.sp) /\ q.io = p.io /\ q.i.word = b
    <3>1. s \in Moment /\ b \in Int /\ Acted(p, s, s.pc, s.sp) BY <1>1, <2>1
    <3> QED BY <3>1, WordActs
  <2> HIDE DEF q
  <2>5. Acted(SpUp(q), s, s.pc, Up(s.sp)) /\ SpUp(q).io = p.io /\ SpUp(q).i.word = b
    BY <1>1, <2>4, SpUpActs
  <2>6. Acted(SetPc(p, n), s, n, s.sp) /\ SetPc(p, n).io = p.io
    <3>1. s \in Moment /\ n \in Int /\ Acted(p, s, s.pc, s.sp) BY <1>1, <2>1, <2>3
    <3> QED BY <3>1, PcActs, Zenon
  <2>7. v.io = p.io BY <2>2, <2>5, <2>6
  <2>8. ReadIn(u, k + 2) = b
    <3>1. PICK a \in Int : Extends(u, t, Append(s.io, Read(a, b))) BY <2>1, <2>7 DEF v
    <3> QED BY <1>1, <3>1, ReadAt
  <2>9. RtiEffect(s.i, s.pc, s.sp, t) BY <1>3, <1>8
  <2>10. CASE k = 3
    <3>1. Acted(v, s, s.pc, Up(s.sp)) /\ v.i.word = ReadIn(u, 5) BY <2>2, <2>5, <2>8, <2>10
    <3>2. s.sp = Up(Up(s.i.sp)) BY <2>9, <2>10 DEF RtiEffect
    <3> QED BY <1>4, <2>10, <3>1, <3>2
  <2>11. CASE k = 4
    <3>1. Acted(v, s, n, s.sp) BY <2>2, <2>6, <2>11
    <3>2. s.sp = Up(Up(Up(s.i.sp))) /\ s.i.word = ReadIn(t, 5) BY <2>9, <2>11 DEF RtiEffect
    <3>3. ReadIn(u, 5) = ReadIn(t, 5)
      <4>1. 5 \in 1 .. s.i.ic + 1 BY <2>11
      <4> QED BY <4>1, KeptAt
    <3>4. n = WordIn(u, 5) BY <2>3, <2>8, <2>11, <3>2, <3>3 DEF WordIn
    <3> QED BY <1>4, <2>11, <3>1, <3>2, <3>4
  <2> QED BY <1>8, <2>10, <2>11
<1> QED BY <1>2, <1>5, <1>6, <1>7, <1>8

LEMMA AlsoOn ==
  ASSUME NEW s \in Moment, NEW v, NEW at, NEW sp, Acted(v, s, at, sp), NEW x \in Bus
  PROVE  Acted(Also(v, x), s, at, sp) /\ Also(v, x).i = v.i /\ Also(v, x).io = Append(v.io, x)
<1>1. v \in Moment /\ v.io \in Seq(Bus) BY DEF Acted, Moment
<1>2. /\ Also(v, x) \in Moment /\ Also(v, x).pc = v.pc /\ Also(v, x).sp = v.sp
      /\ Also(v, x).i = v.i /\ Also(v, x).io = Append(v.io, x)
  BY <1>1, AlsoIs
<1>3. Begins(Append(v.io, x), v.io) BY <1>1, AppendBegins
<1>4. Begins(Append(v.io, x), s.io) BY <1>3 DEF Begins, Acted
<1> QED BY <1>2, <1>4 DEF Acted

LEMMA LastIs == \A io \in Seq(Bus) : \A x \in Bus : Last(Append(io, x)) = x
BY DEF Last

\* The last accesses of BRK load the vector.
Loaded(r, vector, b) == [Also(r, Read(vector, b)) EXCEPT !.pc = b, !.i.base = vector]

LEMMA LoadActs ==
  ASSUME NEW s \in Moment, Type(s.i.op) = "Brk", NEW r, NEW at, NEW sp, Acted(r, s, at, sp),
         NEW vector \in Int, NEW b \in Int
  PROVE  Acted(Loaded(r, vector, b), s, b, sp) /\ Last(Loaded(r, vector, b).io)[3] = b
<1> DEFINE x == Read(vector, b)
           a == Also(r, x)
           w == [a EXCEPT !.pc = b, !.i.base = vector]
<1>1. x \in Bus /\ r.io \in Seq(Bus) BY ReadIs DEF Acted, Moment
<1>2. x[3] = b BY DEF Read
<1> HIDE DEF x
<1>3. Acted(a, s, at, sp) /\ a.io = Append(r.io, x) BY <1>1, AlsoOn
<1>4. Last(a.io) = x BY <1>1, <1>3, LastIs
<1> HIDE DEF a
<1>5. a \in Moment /\ a.i \in Ins BY <1>3 DEF Acted, Moment
<1>6. w = [a EXCEPT !.pc = b, !.i = [a.i EXCEPT !.base = vector]] BY <1>5 DEF Moment
<1>7. [a.i EXCEPT !.base = vector] \in Ins /\ Kept([a.i EXCEPT !.base = vector], s.i)
  <2>1. [a.i EXCEPT !.base = vector] \in Ins BY <1>5, BaseUpdate
  <2>2. Kept(a.i, s.i) BY <1>3 DEF Acted
  <2> QED BY <1>5, <2>1, <2>2 DEF Kept, Ins
<1> HIDE DEF w
<1>8. w \in Moment /\ w.pc = b /\ w.sp = a.sp /\ w.io = a.io /\ w.i = [a.i EXCEPT !.base = vector]
  BY <1>5, <1>6, <1>7 DEF Moment
<1>9. Acted(w, s, b, sp) BY <1>3, <1>7, <1>8 DEF Acted
<1> QED BY <1>2, <1>4, <1>8, <1>9 DEF w, a, x, Loaded

LEMMA BrkStep ==
  ASSUME NEW s, NEW t, NEW u, NEW b \in Byte, Acting(s, t), Type(s.i.op) = "Brk", Mode(s.i.op) = "imp",
         NEW v \in BrkTicks(s, b), Extends(u, t, v.io), u[Len(t) + 1] = v.io
  PROVE  Acts(v, s, u)
<1> DEFINE k == s.i.ic
<1>1. /\ s \in Moment /\ s.i \in Ins /\ s.pc \in Int /\ s.sp \in Int /\ k \in Nat
      /\ b \in Int /\ s.i.word \in Int /\ Peek(s.pc) \in Bus /\ Plus(s.pc, 1) \in Int
  BY Ready
<1>2. k \in 0..5 BY DEF Acting, TypeCycles, TypeLength, Branches, Modifies, Rotates, Pushes, Pulls
<1>3. /\ k = 0 => s.sp = s.i.sp
      /\ k > 0 => BrkEffect(s.i, s.pc, s.sp, t)
  BY <1>1 DEF Acting, Started, Effect, Branches
<1>4. ASSUME NEW at, NEW sp, Acted(v, s, at, sp),
             sp = IF k = 0 THEN s.i.sp ELSE IF k = 1 THEN Down(s.i.sp)
                  ELSE IF k = 2 THEN Down(Down(s.i.sp)) ELSE Down(Down(Down(s.i.sp))),
             k = 4 => at = Last(u[6])[3], k = 5 => at = Last(u[6])[3] + B * ReadIn(u, 7)
      PROVE  Acts(v, s, u)
  <2>1. v.pc = at /\ v.sp = sp /\ Kept(v.i, s.i) BY <1>4 DEF Acted
  <2>2. ASSUME NEW j, Later(j, v.i) PROVE Effect(j, v.pc, v.sp, u)
    <3>1. j.ic = k + 1 /\ j.sp = s.i.sp /\ j.op = s.i.op BY <2>1, <2>2 DEF Kept, Later
    <3>2. BrkEffect(j, v.pc, v.sp, u) BY <1>1, <1>4, <2>1, <3>1 DEF BrkEffect
    <3> QED BY <3>1, <3>2 DEF Effect, Branches
  <2> QED BY <1>4, <2>1, <2>2 DEF Acts
<1>5. Acted(s, s, s.pc, s.sp) BY <1>1, AlsoActs
<1>6. CASE k = 0
  <2> DEFINE o == Also(s, Peek(s.pc))
             q == SetPc(o, Plus(o.pc, 1))
  <2>1. v = SetWord(q, Plus(s.pc, 1)) BY <1>6 DEF BrkTicks, Advance, SetPc, SetWord
  <2>2. Acted(o, s, s.pc, s.sp) BY <1>1, AlsoActs
  <2>3. o.pc = s.pc BY <2>2 DEF Acted
  <2> HIDE DEF o
  <2>4. Acted(q, s, Plus(s.pc, 1), s.sp) BY <1>1, <2>2, <2>3, PcActs
  <2> HIDE DEF q
  <2>5. Acted(v, s, Plus(s.pc, 1), s.sp) BY <1>1, <2>1, <2>4, WordActs
  <2> QED BY <1>3, <1>4, <1>6, <2>5
<1>7. CASE k \in {1, 2, 3}
  <2> DEFINE x == IF k = 1 THEN Page(s.i.word) ELSE IF k = 2 THEN Low(s.i.word) ELSE Reg
  <2>1. v = Push(s, x) BY <1>7 DEF BrkTicks
  <2>2. x \in Int
    <3>1. Page(s.i.word) \in Int /\ Low(s.i.word) \in Int BY <1>1, PageIs
    <3> QED BY <3>1 DEF Reg
  <2> HIDE DEF x
  <2>3. Acted(v, s, s.pc, Down(s.sp)) BY <1>1, <2>1, <2>2, PushActs
  <2>4. s.sp = IF k = 1 THEN s.i.sp ELSE IF k = 2 THEN Down(s.i.sp) ELSE Down(Down(s.i.sp))
    BY <1>3, <1>7 DEF BrkEffect
  <2> QED BY <1>4, <1>7, <2>3, <2>4
<1>8. CASE k = 4
  <2> DEFINE flag == Stack(Up(s.sp))
             once == Also(s, Peek(flag))
             cleared == Also(once, Write(flag, Reg))
  <2>1. v \in {Loaded(s, NmiVector, b), Loaded(cleared, IrqVector, b), Loaded(s, IrqVector, b)}
    BY <1>8 DEF BrkTicks, Loaded
  <2>2. flag \in Int
    <3>1. Up(s.sp) \in Int BY <1>1, Steps, ByteIs
    <3>2. Up(s.sp) + B \in Int BY <3>1, BytesAre
    <3>3. Low(Up(s.sp) + B) \in Int BY <3>2, PageIs
    <3> QED BY <3>3, BytesAre DEF Stack, Low
  <2>3. Peek(flag) \in Bus /\ Write(flag, Reg) \in Bus
    <3> HIDE DEF flag
    <3> QED BY <2>2, ReadIs DEF Reg
  <2>4. NmiVector \in Int /\ IrqVector \in Int BY BytesAre DEF NmiVector, IrqVector
  <2> HIDE DEF flag
  <2>5. Acted(once, s, s.pc, s.sp) BY <1>1, <2>3, AlsoActs
  <2> HIDE DEF once
  <2>6. Acted(cleared, s, s.pc, s.sp) BY <1>1, <2>3, <2>5, AlsoOn
  <2> HIDE DEF cleared
  <2>7. /\ Acted(Loaded(s, NmiVector, b), s, b, s.sp) /\ Last(Loaded(s, NmiVector, b).io)[3] = b
        /\ Acted(Loaded(s, IrqVector, b), s, b, s.sp) /\ Last(Loaded(s, IrqVector, b).io)[3] = b
        /\ Acted(Loaded(cleared, IrqVector, b), s, b, s.sp)
        /\ Last(Loaded(cleared, IrqVector, b).io)[3] = b
    BY <1>1, <1>5, <2>4, <2>6, LoadActs
  <2>8. Acted(v, s, b, s.sp) /\ Last(v.io)[3] = b BY <2>1, <2>7
  <2>9. u[6] = v.io
    <3>1. Len(t) + 1 = 6
      <4>1. Len(t) = s.i.ic + 1 BY DEF Acting
      <4> QED BY <1>8, <4>1
    <3> QED BY <3>1
  <2>10. s.sp = Down(Down(Down(s.i.sp))) BY <1>3, <1>8 DEF BrkEffect
  <2> QED BY <1>4, <1>8, <2>8, <2>9, <2>10
<1>9. CASE k = 5
  <2> DEFINE x == Read(s.i.base + 1, b)
             o == Also(s, x)
             n == o.pc + B * b
  <2>1. v = SetPc(o, n) BY <1>9 DEF BrkTicks, SetPc
  <2>2. s.i.base + 1 \in Int BY ActingIs
  <2>3. x \in Bus BY <1>1, <2>2, ReadIs
  <2> HIDE DEF x
  <2>4. Acted(o, s, s.pc, s.sp) /\ o.io = Append(s.io, x) BY <1>1, <2>3, AlsoActs
  <2>5. o.pc = s.pc BY <2>4 DEF Acted
  <2>6. n \in Int /\ n = s.pc + B * b BY <1>1, <2>5, WordOf
  <2> HIDE DEF o, n
  <2>7. Acted(v, s, n, s.sp) /\ v.io = o.io
    <3>1. s \in Moment /\ n \in Int /\ Acted(o, s, s.pc, s.sp) BY <1>1, <2>4, <2>6
    <3>2. Acted(SetPc(o, n), s, n, s.sp) /\ SetPc(o, n).io = o.io BY <3>1, PutPc DEF Acted
    <3> QED BY <2>1, <3>2, Zenon
  <2>8. ReadIn(u, s.i.ic + 2) = b
    <3>1. Extends(u, t, Append(s.io, Read(s.i.base + 1, b))) BY <2>4, <2>7 DEF x
    <3> QED BY <1>1, <2>2, <3>1, ReadAt
  <2>9. s.sp = Down(Down(Down(s.i.sp))) /\ s.pc = Last(t[6])[3] BY <1>3, <1>9 DEF BrkEffect
  <2>10. u[6] = t[6] /\ ReadIn(u, 7) = b
    <3>1. 6 \in 1 .. s.i.ic + 1 BY <1>9
    <3>2. u[6] = t[6] BY <3>1, KeptAt
    <3> QED BY <1>9, <2>8, <3>2
  <2>11. n = Last(u[6])[3] + B * ReadIn(u, 7) BY <2>6, <2>9, <2>10
  <2> QED BY <1>4, <1>9, <2>7, <2>9, <2>11
<1> QED BY <1>2, <1>6, <1>7, <1>8, <1>9

Leaps == {"Jmp", "Jsr", "Rts", "Rti", "Brk"}
Plain(ty) == ty \notin Branches \cup Leaps \cup Pushes \cup Pulls

LEMMA EffectsAre ==
  ASSUME NEW s, NEW b
  PROVE  /\ Type(s.i.op) \in Branches => TypeEffects(s, b) = BranchTicks(s)
         /\ Type(s.i.op) = "Jmp" => TypeEffects(s, b) = {JmpTick(s)}
         /\ Type(s.i.op) = "Jsr" => TypeEffects(s, b) = {JsrTick(s, b)}
         /\ Type(s.i.op) = "Rts" => TypeEffects(s, b) = {RtsTick(s, b)}
         /\ Type(s.i.op) = "Rti" => TypeEffects(s, b) = {RtiTick(s, b)}
         /\ Type(s.i.op) = "Brk" => TypeEffects(s, b) = BrkTicks(s, b)
         /\ Type(s.i.op) = "Php" => TypeEffects(s, b) = {PhpTick(s)}
         /\ Type(s.i.op) = "Pha" => TypeEffects(s, b) = {PhaTick(s)}
         /\ Type(s.i.op) = "Plp" => TypeEffects(s, b) = {PlpTick(s)}
         /\ Type(s.i.op) = "Pla" => TypeEffects(s, b) = {PlaTick(s)}
<1>1. Type(s.i.op) \in Branches => TypeEffects(s, b) = BranchTicks(s)
  BY Zenon DEF TypeEffects, Modifies, Rotates, Stores, Branches
<1>2. Type(s.i.op) = "Jmp" => TypeEffects(s, b) = {JmpTick(s)}
  BY Zenon DEF TypeEffects, Modifies, Rotates, Stores, Branches
<1>3. Type(s.i.op) = "Jsr" => TypeEffects(s, b) = {JsrTick(s, b)}
  BY Zenon DEF TypeEffects, Modifies, Rotates, Stores, Branches
<1>4. Type(s.i.op) = "Rts" => TypeEffects(s, b) = {RtsTick(s, b)}
  BY Zenon DEF TypeEffects, Modifies, Rotates, Stores, Branches
<1>5. Type(s.i.op) = "Rti" => TypeEffects(s, b) = {RtiTick(s, b)}
  BY Zenon DEF TypeEffects, Modifies, Rotates, Stores, Branches
<1>6. Type(s.i.op) = "Brk" => TypeEffects(s, b) = BrkTicks(s, b)
  BY Zenon DEF TypeEffects, Modifies, Rotates, Stores, Branches
<1>7. Type(s.i.op) = "Php" => TypeEffects(s, b) = {PhpTick(s)}
  BY Zenon DEF TypeEffects, Modifies, Rotates, Stores, Branches
<1>8. Type(s.i.op) = "Pha" => TypeEffects(s, b) = {PhaTick(s)}
  BY Zenon DEF TypeEffects, Modifies, Rotates, Stores, Branches
<1>9. Type(s.i.op) = "Plp" => TypeEffects(s, b) = {PlpTick(s)}
  BY Zenon DEF TypeEffects, Modifies, Rotates, Stores, Branches
<1>10. Type(s.i.op) = "Pla" => TypeEffects(s, b) = {PlaTick(s)}
  BY Zenon DEF TypeEffects, Modifies, Rotates, Stores, Branches
<1> QED BY <1>1, <1>2, <1>3, <1>4, <1>5, <1>6, <1>7, <1>8, <1>9, <1>10

LEMMA PlainEffectsAre ==
  ASSUME NEW s, NEW b
  PROVE  /\ Type(s.i.op) \in Modifies => TypeEffects(s, b) = {ModifyTick(s)}
         /\ Type(s.i.op) \in Stores => TypeEffects(s, b) = {StoreTick(s)}
         /\ Type(s.i.op) \in {"Sxa", "Sya"} => TypeEffects(s, b) = {SxaTick(s)}
         /\ Type(s.i.op) = "Xas" => TypeEffects(s, b) = {XasTick(s)}
         /\ Type(s.i.op) = "Axa" => TypeEffects(s, b) = {AxaTick(s)}
         /\ Type(s.i.op) = "Lar" => TypeEffects(s, b) = {LarTick(s)}
         /\ Type(s.i.op) = "Txs" => TypeEffects(s, b) = {TxsTick(s)}
         /\ Plain(Type(s.i.op))
              /\ Type(s.i.op) \notin Modifies \cup Stores \cup UnstableStores \cup {"Lar", "Txs"}
            => TypeEffects(s, b) = {s}
BY Zenon DEF TypeEffects, Modifies, Rotates, Stores, UnstableStores, Branches, Plain, Leaps, Pushes, Pulls,
       SyaTick, NopTick, DopTick, TopTick

LEMMA JmpStep ==
  ASSUME NEW s, NEW t, NEW u, Acting(s, t), Type(s.i.op) = "Jmp"
  PROVE  Acts(JmpTick(s), s, u)
<1> DEFINE v == JmpTick(s)
<1>1. s \in Moment /\ s.i.addr \in Int BY ActingIs
<1>2. s.i.ic = 0 /\ s.sp = s.i.sp
  <2>1. s.i.ic = 0
    BY DEF Acting, TypeCycles, TypeLength, Branches, Modifies, Rotates, Pushes, Pulls
  <2> QED BY <2>1 DEF Acting, Started
<1>3. v = SetPc(s, s.i.addr) BY DEF JmpTick, SetPc
<1>4. Acted(s, s, s.pc, s.sp)
  <2>1. Peek(0) \in Bus BY ReadIs
  <2> QED BY <1>1, <2>1, AlsoActs
<1> HIDE DEF v
<1>5. Acted(v, s, s.i.addr, s.sp) BY <1>1, <1>3, <1>4, PcActs
<1>6. ASSUME NEW j, Later(j, v.i) PROVE Effect(j, v.pc, v.sp, u)
  <2>1. /\ j.op = s.i.op /\ j.addr = s.i.addr /\ j.sp = s.i.sp
        /\ v.pc = s.i.addr /\ v.sp = s.sp
    BY <1>5, <1>6 DEF Acted, Kept, Later
  <2>2. JmpEffect(j, v.pc, v.sp) BY <1>2, <2>1 DEF JmpEffect
  <2> QED BY <2>1, <2>2 DEF Effect, Branches
<1>7. Acted(v, s, v.pc, v.sp) BY <1>5 DEF Acted
<1> QED BY <1>6, <1>7 DEF Acts, v

\* A branch that is taken.
Taken(s) ==
  [s EXCEPT !.i.taken = TRUE, !.i.far = Page(s.pc) # Page(s.i.addr), !.pc = s.i.addr]

LEMMA TakenIs ==
  ASSUME NEW s \in Moment
  PROVE  /\ Acted(Taken(s), s, s.i.addr, s.sp) /\ Taken(s).i.taken = TRUE
         /\ Taken(s).i.far = (Page(s.pc) # Page(s.i.addr))
<1> DEFINE f == Page(s.pc) # Page(s.i.addr)
           j == [s.i EXCEPT !.taken = TRUE, !.far = f]
           v == Taken(s)
<1>1. s.i \in Ins /\ s.i.addr \in Int /\ f \in BOOLEAN BY DEF Moment, Ins
<1> HIDE DEF f
<1>2. j \in Ins /\ Kept(j, s.i) /\ j.taken = TRUE /\ j.far = f BY <1>1 DEF Ins, Kept
<1>3. v = [s EXCEPT !.i = j, !.pc = s.i.addr]
  <2>1. v = [s EXCEPT !.i.taken = TRUE, !.i.far = f, !.pc = s.i.addr] BY DEF Taken, f
  <2> HIDE DEF v
  <2> QED BY <1>1, <2>1 DEF Moment
<1> HIDE DEF j, v
<1>4. v \in Moment /\ v.i = j /\ v.pc = s.i.addr /\ v.sp = s.sp /\ v.io = s.io
  BY <1>1, <1>2, <1>3 DEF Moment
<1>5. Acted(v, s, s.i.addr, s.sp) BY <1>2, <1>4 DEF Acted, Begins
<1> QED BY <1>2, <1>4, <1>5 DEF v, f

LEMMA BranchStep ==
  ASSUME NEW s, NEW t, NEW u, Acting(s, t), Type(s.i.op) \in Branches, NEW v \in BranchTicks(s)
  PROVE  Acts(v, s, u)
<1>1. s \in Moment /\ s.i.ic \in Nat BY ActingIs
<1>2. Acted(s, s, s.pc, s.sp)
  <2>1. Peek(0) \in Bus BY ReadIs
  <2> QED BY <1>1, <2>1, AlsoActs
<1>3. Started(s.i, s.pc, s.sp, t) BY DEF Acting
<1>4. ASSUME NEW at, NEW sp, Acted(v, s, at, sp),
             \A j : Later(j, v.i) => BranchEffect(j, at, sp)
      PROVE  Acts(v, s, u)
  <2>1. v.pc = at /\ v.sp = sp /\ Kept(v.i, s.i) BY <1>4 DEF Acted
  <2>2. ASSUME NEW j, Later(j, v.i) PROVE Effect(j, v.pc, v.sp, u)
    <3>1. j.op = s.i.op BY <2>1, <2>2 DEF Kept, Later
    <3> QED BY <1>4, <2>1, <2>2, <3>1 DEF Effect
  <2> QED BY <1>4, <2>1, <2>2 DEF Acts
<1>5. CASE v = s
  <2>1. BranchEffect(s.i, s.pc, s.sp) BY <1>1, <1>3 DEF Started, Effect, BranchEffect
  <2>2. ASSUME NEW j, Later(j, v.i) PROVE BranchEffect(j, s.pc, s.sp)
    <3>1. Behind(j) = Behind(s.i) BY <1>5, <2>2 DEF Later, Behind
    <3> QED BY <1>5, <2>1, <2>2, <3>1 DEF BranchEffect, Later
  <2> QED BY <1>2, <1>4, <1>5, <2>2
<1>6. CASE v # s
  <2>1. s.i.ic = 0 /\ v = Taken(s) BY <1>6 DEF BranchTicks, Taken
  <2>2. s.pc = Behind(s.i) /\ s.sp = s.i.sp BY <1>3, <2>1 DEF Started
  <2>3. /\ Acted(v, s, s.i.addr, s.sp) /\ v.i.taken = TRUE
        /\ v.i.far = (Page(s.pc) # Page(s.i.addr))
    BY <1>1, <2>1, TakenIs
  <2>4. ASSUME NEW j, Later(j, v.i) PROVE BranchEffect(j, s.i.addr, s.sp)
    <3>1. /\ j.taken = TRUE /\ j.far = (Page(s.pc) # Page(s.i.addr)) /\ j.addr = s.i.addr /\ j.sp = s.i.sp
          /\ j.from = s.i.from /\ j.op = s.i.op /\ j.ac = s.i.ac
      BY <2>3, <2>4 DEF Later, Acted, Kept
    <3>2. Behind(j) = Behind(s.i) BY <3>1 DEF Behind
    <3> QED BY <2>2, <3>1, <3>2 DEF BranchEffect
  <2> QED BY <1>4, <2>3, <2>4
<1> QED BY <1>5, <1>6

LEMMA StackAt == \A k \in Int : Stack(k) \in Int
<1>1. ASSUME NEW k \in Int PROVE Stack(k) \in Int
  <2>1. k + B \in Int /\ B \in Int BY BytesAre
  <2>2. Low(k + B) \in Int BY <2>1, PageIs
  <2> QED BY <2>1, <2>2 DEF Stack, Low
<1> QED BY <1>1

LEMMA StackStep ==
  ASSUME NEW s, NEW t, NEW u, NEW b \in Byte, Acting(s, t), Type(s.i.op) \in Pushes \cup Pulls,
         NEW v \in TypeEffects(s, b)
  PROVE  Acts(v, s, u)
<1> DEFINE k == s.i.ic
           ty == Type(s.i.op)
<1>1. s \in Moment /\ s.sp \in Int /\ k \in Nat /\ Peek(s.pc) \in Bus /\ Peek(Stack(s.sp)) \in Bus
  <2>1. s.sp \in Int BY ActingIs
  <2>2. Stack(s.sp) \in Int BY <2>1, StackAt
  <2> QED BY <2>1, <2>2, Ready, ReadIs
<1>2. k \in (IF ty \in Pushes THEN 0..1 ELSE 0..2)
  BY DEF Acting, TypeCycles, TypeLength, Branches, Modifies, Rotates, Pushes, Pulls
<1>3. /\ s.pc = Behind(s.i) /\ (k <= 1 => s.sp = s.i.sp)
      /\ k = 2 => s.sp = Up(s.i.sp)
  <2>1. k > 0 => StackEffect(s.i, s.pc, s.sp)
    BY <1>1 DEF Acting, Started, Effect, Branches, Pushes, Pulls
  <2>2. k = 0 => s.pc = Behind(s.i) /\ s.sp = s.i.sp BY DEF Acting, Started
  <2> QED BY <1>1, <1>2, <2>1, <2>2 DEF StackEffect
<1>4. ASSUME NEW sp, Acted(v, s, s.pc, sp),
             sp = IF k = 0 THEN s.i.sp ELSE IF ty \in Pushes THEN Down(s.i.sp) ELSE Up(s.i.sp)
      PROVE  Acts(v, s, u)
  <2>1. v.pc = s.pc /\ v.sp = sp /\ Kept(v.i, s.i) BY <1>4 DEF Acted
  <2>2. ASSUME NEW j, Later(j, v.i) PROVE Effect(j, v.pc, v.sp, u)
    <3>1. /\ j.ic = k + 1 /\ j.sp = s.i.sp /\ j.op = s.i.op /\ j.from = s.i.from /\ j.ac = s.i.ac
      BY <2>1, <2>2 DEF Kept, Later
    <3>2. Behind(j) = Behind(s.i) BY <3>1 DEF Behind
    <3>3. StackEffect(j, v.pc, v.sp) BY <1>1, <1>3, <1>4, <2>1, <3>1, <3>2 DEF StackEffect
    <3> QED BY <3>1, <3>3 DEF Effect, Branches, Pushes, Pulls
  <2>3. Acted(v, s, v.pc, v.sp) BY <1>4, <2>1
  <2> QED BY <2>2, <2>3 DEF Acts
<1>5. /\ Acted(s, s, s.pc, s.sp)
      /\ Acted(Also(s, Peek(s.pc)), s, s.pc, s.sp)
      /\ Acted(Also(s, Peek(Stack(s.sp))), s, s.pc, s.sp)
  BY <1>1, AlsoActs
<1>6. CASE k = 0
  <2>1. v \in {s, Also(s, Peek(s.pc)), Also(s, Peek(Stack(s.sp)))}
    BY <1>6, EffectsAre DEF PhpTick, PhaTick, PlpTick, PlaTick, Pushes, Pulls
  <2>2. Acted(v, s, s.pc, s.sp) BY <1>5, <2>1
  <2> QED BY <1>3, <1>4, <1>6, <2>2
<1>7. CASE k = 1 /\ ty \in Pushes
  <2>1. v = Push(s, Reg) BY <1>7, EffectsAre DEF PhpTick, PhaTick, Pushes
  <2>2. Reg \in Int BY DEF Reg
  <2>3. Acted(v, s, s.pc, Down(s.sp)) BY <1>1, <2>1, <2>2, PushActs
  <2> QED BY <1>3, <1>4, <1>7, <2>3
<1>8. CASE k = 1 /\ ty \notin Pushes
  <2>1. v = SpUp(s) BY <1>8, EffectsAre DEF PlpTick, PlaTick, Pulls
  <2>2. Acted(v, s, s.pc, Up(s.sp)) BY <1>1, <1>5, <2>1, SpUpActs
  <2> QED BY <1>3, <1>4, <1>8, <2>2
<1>9. CASE k = 2
  <2>1. ty \notin Pushes BY <1>2, <1>9
  <2>2. v = Pull(s, 0) BY <1>9, <2>1, EffectsAre DEF PlpTick, PlaTick, Pulls
  <2>3. Acted(v, s, s.pc, s.sp) BY <1>1, <2>2, PullActs
  <2> QED BY <1>3, <1>4, <1>9, <2>1, <2>3
<1> QED BY <1>1, <1>2, <1>6, <1>7, <1>8, <1>9

\* The accesses of the types that leave no more than the stack pointer changed.
LEMMA WritesAre ==
  ASSUME NEW s, NEW t, Acting(s, t)
  PROVE  /\ Peek(s.i.addr) \in Bus /\ Write(s.i.addr, Old) \in Bus /\ Write(s.i.addr, New) \in Bus
         /\ Write(s.i.addr, Reg) \in Bus /\ Write(s.i.addr, Stored(s)) \in Bus
         /\ s.i.addr \in Address => Write(B * MaskedPage(s) + Low(s.i.addr), Stored(s)) \in Bus
<1>1. s.i.addr \in Int /\ s.i.base \in Int /\ s.i.mask \in Byte BY ActingIs DEF Acting
<1>2. Old \in Int /\ New \in Int /\ Reg \in Int BY DEF Old, New, Reg
<1>3. Stored(s) \in Int
  <2>1. Page(s.i.base) \in Int BY <1>1, PageIs
  <2>2. Page(s.i.base) + 1 \in Int BY <2>1
  <2>3. Low(Page(s.i.base) + 1) \in Byte BY <2>2, PageIs
  <2>4. (Page(s.i.base) + 1) % B \in Byte BY <2>3 DEF Low
  <2>5. BitAnd(s.i.mask, (Page(s.i.base) + 1) % B) \in Byte BY <1>1, <2>4, AndFacts
  <2> QED BY <2>5, ByteIs DEF Stored
<1>4. ASSUME s.i.addr \in Address PROVE B * MaskedPage(s) + Low(s.i.addr) \in Int
  <2>1. Page(s.i.addr) \in Byte BY <1>4, SizeAssumption, Z3 DEF Address, Page, Byte
  <2>2. BitAnd(Page(s.i.addr), s.i.mask) \in Byte BY <1>1, <2>1, AndFacts
  <2>3. MaskedPage(s) \in Int BY <2>1, <2>2, ByteIs DEF MaskedPage
  <2>4. Low(s.i.addr) \in Int BY <1>1, PageIs
  <2> HIDE DEF MaskedPage
  <2>5. B * MaskedPage(s) \in Int BY <2>3, BytesAre
  <2> QED BY <2>4, <2>5
<1> QED BY <1>1, <1>2, <1>3, <1>4, ReadIs

LEMMA PlainStep ==
  ASSUME NEW s, NEW t, NEW u, NEW b \in Byte, Acting(s, t), Plain(Type(s.i.op)),
         Type(s.i.op) \in {"Sxa", "Sya", "Xas"} => s.i.addr \in Address,
         NEW v \in TypeEffects(s, b)
  PROVE  Acts(v, s, u)
<1> DEFINE k == s.i.ic
           ty == Type(s.i.op)
           sp1 == IF ty \in {"Xas", "Txs"} THEN s.i.mask
                  ELSE IF ty = "Lar" THEN BitAnd(s.sp, s.i.mask) ELSE s.sp
<1>1. s \in Moment /\ k \in Nat BY ActingIs
<1>2. s.pc = Behind(s.i) /\ s.sp = s.i.sp
  <2>1. k > 0 => PlainEffect(s.i, s.pc, s.sp)
    BY <1>1 DEF Acting, Started, Effect, Branches, Pushes, Pulls, Plain, Leaps
  <2>2. k = 0 => s.pc = Behind(s.i) /\ s.sp = s.i.sp BY DEF Acting, Started
  <2>3. k > 0 => ty \in Modifies
    BY <1>1 DEF Acting, TypeCycles, TypeLength, Plain, Branches, Leaps, Pushes, Pulls
  <2>4. ty \in Modifies => ty \notin {"Xas", "Txs", "Lar"} BY DEF Modifies, Rotates
  <2> QED BY <1>1, <2>1, <2>2, <2>3, <2>4 DEF PlainEffect
<1>3. Acted(s, s, s.pc, s.sp)
  <2>1. Peek(0) \in Bus BY ReadIs
  <2> QED BY <1>1, <2>1, AlsoActs
<1>4. \A x \in Bus : Acted(Also(s, x), s, s.pc, s.sp) BY <1>1, AlsoActs
<1>5. s.i.mask \in Int /\ BitAnd(s.sp, s.i.mask) \in Int
  <2>1. BitAnd(s.sp, s.i.mask) \in Byte /\ s.i.mask \in Byte BY AndFacts DEF Acting
  <2> QED BY <2>1, ByteIs
<1>6. Acted(v, s, s.pc, sp1)
  <2>1. CASE ty \in Modifies
    <3>1. v = ModifyTick(s) BY <2>1, PlainEffectsAre
    <3>2. k \in 0..2 BY <2>1 DEF Acting, TypeCycles, TypeLength, Branches, Modifies, Rotates
    <3>3. v \in {s, Also(s, Peek(s.i.addr)), Also(s, Write(s.i.addr, Old)), Also(s, Write(s.i.addr, New))}
      BY <3>1, <3>2 DEF ModifyTick
    <3>4. Acted(v, s, s.pc, s.sp) BY <1>3, <1>4, <3>3, WritesAre
    <3> QED BY <2>1, <3>4 DEF Modifies, Rotates
  <2>2. CASE ty \in Stores
    <3>1. v = Also(s, Write(s.i.addr, Reg)) BY <2>2, PlainEffectsAre DEF StoreTick
    <3>2. Acted(v, s, s.pc, s.sp) BY <1>4, <3>1, WritesAre
    <3> QED BY <2>2, <3>2 DEF Stores
  <2>3. CASE ty \in {"Sxa", "Sya", "Xas"}
    <3> DEFINE x == Write(B * MaskedPage(s) + Low(s.i.addr), Stored(s))
    <3>1. v = IF ty = "Xas" THEN SetSp(Also(s, x), s.i.mask) ELSE Also(s, x)
      BY <2>3, PlainEffectsAre DEF SxaTick, XasTick, SetSp
    <3>2. x \in Bus BY <2>3, WritesAre
    <3> HIDE DEF x
    <3>3. Acted(Also(s, x), s, s.pc, s.sp) BY <1>4, <3>2
    <3>4. Acted(SetSp(Also(s, x), s.i.mask), s, s.pc, s.i.mask) BY <1>1, <1>5, <3>3, SpActs
    <3> QED BY <2>3, <3>1, <3>3, <3>4
  <2>4. CASE ty = "Axa"
    <3>1. v = Also(s, Write(s.i.addr, Stored(s))) BY <2>4, PlainEffectsAre DEF AxaTick
    <3>2. Acted(v, s, s.pc, s.sp) BY <1>4, <3>1, WritesAre
    <3> QED BY <2>4, <3>2
  <2>5. CASE ty \in {"Lar", "Txs"}
    <3>1. v = SetSp(s, IF ty = "Lar" THEN BitAnd(s.sp, s.i.mask) ELSE s.i.mask)
      BY <2>5, PlainEffectsAre DEF LarTick, TxsTick, SetSp
    <3>2. v = SetSp(s, sp1) /\ sp1 \in Int BY <1>5, <2>5, <3>1
    <3> HIDE DEF sp1
    <3> QED BY <1>1, <1>3, <3>2, SpActs
  <2>6. CASE ty \notin Modifies \cup Stores \cup UnstableStores \cup {"Lar", "Txs"}
    <3>1. v = s BY <2>6, PlainEffectsAre
    <3> QED BY <1>3, <2>6, <3>1 DEF UnstableStores
  <2> QED BY <2>1, <2>2, <2>3, <2>4, <2>5, <2>6 DEF UnstableStores
<1>7. v.pc = s.pc /\ v.sp = sp1 /\ Kept(v.i, s.i) BY <1>6 DEF Acted
<1>8. ASSUME NEW j, Later(j, v.i) PROVE Effect(j, v.pc, v.sp, u)
  <2>1. /\ j.sp = s.i.sp /\ j.op = s.i.op /\ j.from = s.i.from /\ j.ac = s.i.ac /\ j.mask = s.i.mask
    BY <1>7, <1>8 DEF Kept, Later
  <2>2. Behind(j) = Behind(s.i) BY <2>1 DEF Behind
  <2>3. PlainEffect(j, v.pc, v.sp) BY <1>2, <1>7, <2>1, <2>2 DEF PlainEffect
  <2> QED BY <2>1, <2>3 DEF Effect, Plain, Leaps, Pushes, Pulls
<1>9. Acted(v, s, v.pc, v.sp) BY <1>6, <1>7
<1> QED BY <1>8, <1>9 DEF Acts

(***************************************************************************)
(* The two decoders and the table of cycles, opcode by opcode.             *)
(***************************************************************************)
ReadMnemonics == {"ADC", "AND", "BIT", "CMP", "CPX", "CPY", "EOR", "LDA", "LDX", "LDY", "ORA", "SBC",
                  "AAC", "ARR", "ASR", "ATX", "AXS", "LAR", "LAX", "TOP", "XAA"}
ModifyMnemonics == {"ASL", "DEC", "INC", "LSR", "ROL", "ROR", "DCP", "ISB", "RLA", "RRA", "SLO", "SRE"}
BranchMnemonics == {"BCC", "BCS", "BEQ", "BMI", "BNE", "BPL", "BVC", "BVS"}
RegisterMnemonics == {"CLC", "CLD", "CLI", "CLV", "SEC", "SED", "SEI", "NOP", "DEX", "DEY", "INY", "INX",
                      "TAX", "TAY", "TXA", "TYA", "TXS", "TSX"}
Columns == {1, 2, 3, 4, 5, 6, 7, 8, 9, 10, 11, 12, 13, 14, 15, 16}

Accumulators == {"AslA", "LsrA", "RolA", "RorA"}
Writers == Modifies \cup Stores \cup UnstableStores
Implied == {"Jsr", "Rts", "Rti", "Brk", "Php", "Pha", "Plp", "Pla", "Kil", "Txs"} \cup Accumulators
Carried == {"absx", "absy", "indy"}

\* d is an entry of the decoder and a the arm that the first CPU has for its opcode.
SameMode(d, a) ==
  IF d[1] \in Accumulators THEN a[2] = "acc" ELSE IF d[2] = "rel" THEN a[2] = "imp" ELSE a[2] = d[2]

SameType(d, a) ==
  /\ (a[1] \in ReadMnemonics) <=> (d[2] # "imp" /\ d[1] \notin Writers \cup Branches \cup {"Jmp", "Dop"})
  /\ (a[1] \in ModifyMnemonics) <=> (d[1] \in Modifies \cup Accumulators)
  /\ (a[1] \in {"STA", "STX", "STY", "SAX"}) <=> (d[1] \in Stores)
  /\ (a[1] \in {"SXA", "SYA", "AXA", "XAS"}) <=> (d[1] \in UnstableStores)
  /\ (a[1] \in BranchMnemonics) <=> (d[1] \in Branches)
  /\ (a[1] \in RegisterMnemonics) <=> (d[2] = "imp" /\ d[1] \notin Implied \ {"Txs"})
  /\ (a[1] = "JMP") <=> (d[1] = "Jmp")
  /\ (a[1] = "JSR") <=> (d[1] = "Jsr")
  /\ (a[1] = "RTS") <=> (d[1] = "Rts")
  /\ (a[1] = "RTI") <=> (d[1] = "Rti")
  /\ (a[1] = "BRK") <=> (d[1] = "Brk")
  /\ (a[1] \in {"PHA", "PHP"}) <=> (d[1] \in {"Pha", "Php"})
  /\ (a[1] \in {"PLA", "PLP"}) <=> (d[1] \in {"Pla", "Plp"})
  /\ (a[1] = "DOP") <=> (d[1] = "Dop")
  /\ (a[1] = "KIL") <=> (d[1] = "Kil")
  /\ (a[1] = "LAR") <=> (d[1] = "Lar")
  /\ (a[1] = "TXS") <=> (d[1] = "Txs")
  /\ (a[1] = "XAS") <=> (d[1] = "Xas")
  /\ (a[1] = "TOP") <=> (d[1] = "Top")

\* What types and accesses a mode comes with.
Fits(d) ==
  /\ d[2] \in Modes
  /\ d[2] = "rel" <=> d[1] \in Branches
  /\ d[1] \in Implied => d[2] = "imp"
  /\ d[1] = "Jmp" <=> (d[2] = "ind" \/ (d[2] = "abs" /\ d[3] = "J"))
  /\ d[2] \in Carried => (d[3] = "R" <=> d[1] \notin Writers)
  /\ d[1] \in {"Sxa", "Sya", "Xas"} => d[2] \in {"absx", "absy"}
  /\ d[1] = "Dop" => d[2] \notin Carried

\* The cycles of a mode that crosses no page; one of them is the first of the type.
ModeLength(d) ==
  IF d[2] = "imp" THEN 1
  ELSE IF d[2] \in {"imm", "rel"} THEN 1
  ELSE IF d[2] = "zp" THEN 2
  ELSE IF d[2] \in {"zpx", "zpy"} THEN 3
  ELSE IF d[2] = "abs" THEN IF d[3] = "J" THEN 2 ELSE 3
  ELSE IF d[2] \in {"absx", "absy"} THEN IF d[3] = "R" THEN 3 ELSE 4
  ELSE IF d[2] = "ind" THEN 4
  ELSE IF d[2] = "indx" THEN 5
  ELSE IF d[3] = "R" THEN 4 ELSE 5

Agrees(d, a, cycles) ==
  SameMode(d, a) /\ SameType(d, a) /\ Fits(d) /\ cycles = ModeLength(d) + TypeLength(d[1])

LEMMA Modes0 == \A c \in Columns : SameMode(Row0[c], Codes0[c])
BY DEF Row0, Codes0, Columns, SameMode, Accumulators
LEMMA Types0 == \A c \in Columns : SameType(Row0[c], Codes0[c])
BY DEF Row0, Codes0, Columns, SameType, Writers, Accumulators, ReadMnemonics, ModifyMnemonics,
       BranchMnemonics, RegisterMnemonics, Implied, Modifies, Rotates, Stores, UnstableStores, Branches
LEMMA Fits0 == \A c \in Columns : Fits(Row0[c])
BY DEF Row0, Columns, Fits, Implied, Carried, Modes, Accumulators, Writers,
       Modifies, Rotates, Stores, UnstableStores, Branches
LEMMA Cycles0 == \A c \in Columns : TableLow[1][c] = ModeLength(Row0[c]) + TypeLength(Row0[c][1])
BY DEF Row0, Columns, TableLow, ModeLength, TypeLength, Pushes, Pulls,
       Modifies, Rotates, Stores, UnstableStores, Branches

LEMMA Modes1 == \A c \in Columns : SameMode(Row1[c], Codes1[c])
BY DEF Row1, Codes1, Columns, SameMode, Accumulators
LEMMA Types1 == \A c \in Columns : SameType(Row1[c], Codes1[c])
BY DEF Row1, Codes1, Columns, SameType, Writers, Accumulators, ReadMnemonics, ModifyMnemonics,
       BranchMnemonics, RegisterMnemonics, Implied, Modifies, Rotates, Stores, UnstableStores, Branches
LEMMA Fits1 == \A c \in Columns : Fits(Row1[c])
BY DEF Row1, Columns, Fits, Implied, Carried, Modes, Accumulators, Writers,
       Modifies, Rotates, Stores, UnstableStores, Branches
LEMMA Cycles1 == \A c \in Columns : TableLow[2][c] = ModeLength(Row1[c]) + TypeLength(Row1[c][1])
BY DEF Row1, Columns, TableLow, ModeLength, TypeLength, Pushes, Pulls,
       Modifies, Rotates, Stores, UnstableStores, Branches

LEMMA Modes2 == \A c \in Columns : SameMode(Row2[c], Codes2[c])
BY DEF Row2, Codes2, Columns, SameMode, Accumulators
LEMMA Types2 == \A c \in Columns : SameType(Row2[c], Codes2[c])
BY DEF Row2, Codes2, Columns, SameType, Writers, Accumulators, ReadMnemonics, ModifyMnemonics,
       BranchMnemonics, RegisterMnemonics, Implied, Modifies, Rotates, Stores, UnstableStores, Branches
LEMMA Fits2 == \A c \in Columns : Fits(Row2[c])
BY DEF Row2, Columns, Fits, Implied, Carried, Modes, Accumulators, Writers,
       Modifies, Rotates, Stores, UnstableStores, Branches
LEMMA Cycles2 == \A c \in Columns : TableLow[3][c] = ModeLength(Row2[c]) + TypeLength(Row2[c][1])
BY DEF Row2, Columns, TableLow, ModeLength, TypeLength, Pushes, Pulls,
       Modifies, Rotates, Stores, UnstableStores, Branches

LEMMA Modes3 == \A c \in Columns : SameMode(Row3[c], Codes3[c])
BY DEF Row3, Codes3, Columns, SameMode, Accumulators
LEMMA Types3 == \A c \in Columns : SameType(Row3[c], Codes3[c])
BY DEF Row3, Codes3, Columns, SameType, Writers, Accumulators, ReadMnemonics, ModifyMnemonics,
       BranchMnemonics, RegisterMnemonics, Implied, Modifies, Rotates, Stores, UnstableStores, Branches
LEMMA Fits3 == \A c \in Columns : Fits(Row3[c])
BY DEF Row3, Columns, Fits, Implied, Carried, Modes, Accumulators, Writers,
       Modifies, Rotates, Stores, UnstableStores, Branches
LEMMA Cycles3 == \A c \in Columns : TableLow[4][c] = ModeLength(Row3[c]) + TypeLength(Row3[c][1])
BY DEF Row3, Columns, TableLow, ModeLength, TypeLength, Pushes, Pulls,
       Modifies, Rotates, Stores, UnstableStores, Branches

LEMMA Modes4 == \A c \in Columns : SameMode(Row4[c], Codes4[c])
BY DEF Row4, Codes4, Columns, SameMode, Accumulators
LEMMA Types4 == \A c \in Columns : SameType(Row4[c], Codes4[c])
BY DEF Row4, Codes4, Columns, SameType, Writers, Accumulators, ReadMnemonics, ModifyMnemonics,
       BranchMnemonics, RegisterMnemonics, Implied, Modifies, Rotates, Stores, UnstableStores, Branches
LEMMA Fits4 == \A c \in Columns : Fits(Row4[c])
BY DEF Row4, Columns, Fits, Implied, Carried, Modes, Accumulators, Writers,
       Modifies, Rotates, Stores, UnstableStores, Branches
LEMMA Cycles4 == \A c \in Columns : TableLow[5][c] = ModeLength(Row4[c]) + TypeLength(Row4[c][1])
BY DEF Row4, Columns, TableLow, ModeLength, TypeLength, Pushes, Pulls,
       Modifies, Rotates, Stores, UnstableStores, Branches

LEMMA Modes5 == \A c \in Columns : SameMode(Row5[c], Codes5[c])
BY DEF Row5, Row5Begin, Row5End, Codes5, Columns, SameMode, Accumulators
LEMMA Types5 == \A c \in Columns : SameType(Row5[c], Codes5[c])
BY DEF Row5, Row5Begin, Row5End, Codes5, Columns, SameType, Writers, Accumulators, ReadMnemonics, ModifyMnemonics,
       BranchMnemonics, RegisterMnemonics, Implied, Modifies, Rotates, Stores, UnstableStores, Branches
LEMMA Fits5 == \A c \in Columns : Fits(Row5[c])
BY DEF Row5, Row5Begin, Row5End, Columns, Fits, Implied, Carried, Modes, Accumulators, Writers,
       Modifies, Rotates, Stores, UnstableStores, Branches
LEMMA Cycles5 == \A c \in Columns : TableLow[6][c] = ModeLength(Row5[c]) + TypeLength(Row5[c][1])
BY DEF Row5, Row5Begin, Row5End, Columns, TableLow, ModeLength, TypeLength, Pushes, Pulls,
       Modifies, Rotates, Stores, UnstableStores, Branches

LEMMA Modes6 == \A c \in Columns : SameMode(Row6[c], Codes6[c])
BY DEF Row6, Codes6, Columns, SameMode, Accumulators
LEMMA Types6 == \A c \in Columns : SameType(Row6[c], Codes6[c])
BY DEF Row6, Codes6, Columns, SameType, Writers, Accumulators, ReadMnemonics, ModifyMnemonics,
       BranchMnemonics, RegisterMnemonics, Implied, Modifies, Rotates, Stores, UnstableStores, Branches
LEMMA Fits6 == \A c \in Columns : Fits(Row6[c])
BY DEF Row6, Columns, Fits, Implied, Carried, Modes, Accumulators, Writers,
       Modifies, Rotates, Stores, UnstableStores, Branches
LEMMA Cycles6 == \A c \in Columns : TableLow[7][c] = ModeLength(Row6[c]) + TypeLength(Row6[c][1])
BY DEF Row6, Columns, TableLow, ModeLength, TypeLength, Pushes, Pulls,
       Modifies, Rotates, Stores, UnstableStores, Branches

LEMMA Modes7 == \A c \in Columns : SameMode(Row7[c], Codes7[c])
BY DEF Row7, Codes7, Columns, SameMode, Accumulators
LEMMA Types7 == \A c \in Columns : SameType(Row7[c], Codes7[c])
BY DEF Row7, Codes7, Columns, SameType, Writers, Accumulators, ReadMnemonics, ModifyMnemonics,
       BranchMnemonics, RegisterMnemonics, Implied, Modifies, Rotates, Stores, UnstableStores, Branches
LEMMA Fits7 == \A c \in Columns : Fits(Row7[c])
BY DEF Row7, Columns, Fits, Implied, Carried, Modes, Accumulators, Writers,
       Modifies, Rotates, Stores, UnstableStores, Branches
LEMMA Cycles7 == \A c \in Columns : TableLow[8][c] = ModeLength(Row7[c]) + TypeLength(Row7[c][1])
BY DEF Row7, Columns, TableLow, ModeLength, TypeLength, Pushes, Pulls,
       Modifies, Rotates, Stores, UnstableStores, Branches

LEMMA Modes8 == \A c \in Columns : SameMode(Row8[c], Codes8[c])
BY DEF Row8, Codes8, Columns, SameMode, Accumulators
LEMMA Types8 == \A c \in Columns : SameType(Row8[c], Codes8[c])
BY DEF Row8, Codes8, Columns, SameType, Writers, Accumulators, ReadMnemonics, ModifyMnemonics,
       BranchMnemonics, RegisterMnemonics, Implied, Modifies, Rotates, Stores, UnstableStores, Branches
LEMMA Fits8 == \A c \in Columns : Fits(Row8[c])
BY DEF Row8, Columns, Fits, Implied, Carried, Modes, Accumulators, Writers,
       Modifies, Rotates, Stores, UnstableStores, Branches
LEMMA Cycles8 == \A c \in Columns : TableHigh[1][c] = ModeLength(Row8[c]) + TypeLength(Row8[c][1])
BY DEF Row8, Columns, TableHigh, ModeLength, TypeLength, Pushes, Pulls,
       Modifies, Rotates, Stores, UnstableStores, Branches

LEMMA Modes9 == \A c \in Columns : SameMode(Row9[c], Codes9[c])
BY DEF Row9, Codes9, Columns, SameMode, Accumulators
LEMMA Types9 == \A c \in Columns : SameType(Row9[c], Codes9[c])
BY DEF Row9, Codes9, Columns, SameType, Writers, Accumulators, ReadMnemonics, ModifyMnemonics,
       BranchMnemonics, RegisterMnemonics, Implied, Modifies, Rotates, Stores, UnstableStores, Branches
LEMMA Fits9 == \A c \in Columns : Fits(Row9[c])
BY DEF Row9, Columns, Fits, Implied, Carried, Modes, Accumulators, Writers,
       Modifies, Rotates, Stores, UnstableStores, Branches
LEMMA Cycles9 == \A c \in Columns : TableHigh[2][c] = ModeLength(Row9[c]) + TypeLength(Row9[c][1])
BY DEF Row9, Columns, TableHigh, ModeLength, TypeLength, Pushes, Pulls,
       Modifies, Rotates, Stores, UnstableStores, Branches

LEMMA ModesA == \A c \in Columns : SameMode(RowA[c], CodesA[c])
BY DEF RowA, CodesA, Columns, SameMode, Accumulators
LEMMA TypesA == \A c \in Columns : SameType(RowA[c], CodesA[c])
BY DEF RowA, CodesA, Columns, SameType, Writers, Accumulators, ReadMnemonics, ModifyMnemonics,
       BranchMnemonics, RegisterMnemonics, Implied, Modifies, Rotates, Stores, UnstableStores, Branches
LEMMA FitsA == \A c \in Columns : Fits(RowA[c])
BY DEF RowA, Columns, Fits, Implied, Carried, Modes, Accumulators, Writers,
       Modifies, Rotates, Stores, UnstableStores, Branches
LEMMA CyclesA == \A c \in Columns : TableHigh[3][c] = ModeLength(RowA[c]) + TypeLength(RowA[c][1])
BY DEF RowA, Columns, TableHigh, ModeLength, TypeLength, Pushes, Pulls,
       Modifies, Rotates, Stores, UnstableStores, Branches

LEMMA ModesB == \A c \in Columns : SameMode(RowB[c], CodesB[c])
BY DEF RowB, CodesB, Columns, SameMode, Accumulators
LEMMA TypesB == \A c \in Columns : SameType(RowB[c], CodesB[c])
BY DEF RowB, CodesB, Columns, SameType, Writers, Accumulators, ReadMnemonics, ModifyMnemonics,
       BranchMnemonics, RegisterMnemonics, Implied, Modifies, Rotates, Stores, UnstableStores, Branches
LEMMA FitsB == \A c \in Columns : Fits(RowB[c])
BY DEF RowB, Columns, Fits, Implied, Carried, Modes, Accumulators, Writers,
       Modifies, Rotates, Stores, UnstableStores, Branches
LEMMA CyclesB == \A c \in Columns : TableHigh[4][c] = ModeLength(RowB[c]) + TypeLength(RowB[c][1])
BY DEF RowB, Columns, TableHigh, ModeLength, TypeLength, Pushes, Pulls,
       Modifies, Rotates, Stores, UnstableStores, Branches

LEMMA ModesC == \A c \in Columns : SameMode(RowC[c], CodesC[c])
BY DEF RowC, CodesC, Columns, SameMode, Accumulators
LEMMA TypesC == \A c \in Columns : SameType(RowC[c], CodesC[c])
BY DEF RowC, CodesC, Columns, SameType, Writers, Accumulators, ReadMnemonics, ModifyMnemonics,
       BranchMnemonics, RegisterMnemonics, Implied, Modifies, Rotates, Stores, UnstableStores, Branches
LEMMA FitsC == \A c \in Columns : Fits(RowC[c])
BY DEF RowC, Columns, Fits, Implied, Carried, Modes, Accumulators, Writers,
       Modifies, Rotates, Stores, UnstableStores, Branches
LEMMA CyclesC == \A c \in Columns : TableHigh[5][c] = ModeLength(RowC[c]) + TypeLength(RowC[c][1])
BY DEF RowC, Columns, TableHigh, ModeLength, TypeLength, Pushes, Pulls,
       Modifies, Rotates, Stores, UnstableStores, Branches

LEMMA ModesD == \A c \in Columns : SameMode(RowD[c], CodesD[c])
BY DEF RowD, CodesD, Columns, SameMode, Accumulators
LEMMA TypesD == \A c \in Columns : SameType(RowD[c], CodesD[c])
BY DEF RowD, CodesD, Columns, SameType, Writers, Accumulators, ReadMnemonics, ModifyMnemonics,
       BranchMnemonics, RegisterMnemonics, Implied, Modifies, Rotates, Stores, UnstableStores, Branches
LEMMA FitsD == \A c \in Columns : Fits(RowD[c])
BY DEF RowD, Columns, Fits, Implied, Carried, Modes, Accumulators, Writers,
       Modifies, Rotates, Stores, UnstableStores, Branches
LEMMA CyclesD == \A c \in Columns : TableHigh[6][c] = ModeLength(RowD[c]) + TypeLength(RowD[c][1])
BY DEF RowD, Columns, TableHigh, ModeLength, TypeLength, Pushes, Pulls,
       Modifies, Rotates, Stores, UnstableStores, Branches

LEMMA ModesE == \A c \in Columns : SameMode(RowE[c], CodesE[c])
BY DEF RowE, CodesE, Columns, SameMode, Accumulators
LEMMA TypesE == \A c \in Columns : SameType(RowE[c], CodesE[c])
BY DEF RowE, CodesE, Columns, SameType, Writers, Accumulators, ReadMnemonics, ModifyMnemonics,
       BranchMnemonics, RegisterMnemonics, Implied, Modifies, Rotates, Stores, UnstableStores, Branches
LEMMA FitsE == \A c \in Columns : Fits(RowE[c])
BY DEF RowE, Columns, Fits, Implied, Carried, Modes, Accumulators, Writers,
       Modifies, Rotates, Stores, UnstableStores, Branches
LEMMA CyclesE == \A c \in Columns : TableHigh[7][c] = ModeLength(RowE[c]) + TypeLength(RowE[c][1])
BY DEF RowE, Columns, TableHigh, ModeLength, TypeLength, Pushes, Pulls,
       Modifies, Rotates, Stores, UnstableStores, Branches

LEMMA ModesF == \A c \in Columns : SameMode(RowF[c], CodesF[c])
BY DEF RowF, CodesF, Columns, SameMode, Accumulators
LEMMA TypesF == \A c \in Columns : SameType(RowF[c], CodesF[c])
BY DEF RowF, CodesF, Columns, SameType, Writers, Accumulators, ReadMnemonics, ModifyMnemonics,
       BranchMnemonics, RegisterMnemonics, Implied, Modifies, Rotates, Stores, UnstableStores, Branches
LEMMA FitsF == \A c \in Columns : Fits(RowF[c])
BY DEF RowF, Columns, Fits, Implied, Carried, Modes, Accumulators, Writers,
       Modifies, Rotates, Stores, UnstableStores, Branches
LEMMA CyclesF == \A c \in Columns : TableHigh[8][c] = ModeLength(RowF[c]) + TypeLength(RowF[c][1])
BY DEF RowF, Columns, TableHigh, ModeLength, TypeLength, Pushes, Pulls,
       Modifies, Rotates, Stores, UnstableStores, Branches

BothTables == TableLow \o TableHigh

LEMMA TableRows == \A q \in 1..8 : BothTables[q] = TableLow[q] /\ BothTables[q + 8] = TableHigh[q]
<1>1. Len(TableLow) = 8 /\ Len(TableHigh) = 8 BY DEF TableLow, TableHigh
<1>2. TableLow \in Seq(Seq(Nat)) /\ TableHigh \in Seq(Seq(Nat))
  <2>1. TableLow \in Seq(Seq(Nat)) BY DEF TableLow
  <2>2. TableHigh \in Seq(Seq(Nat)) BY DEF TableHigh
  <2> QED BY <2>1, <2>2
<1>3. \A s, t \in Seq(Seq(Nat)) : Len(s) = 8 /\ Len(t) = 8 =>
        \A q \in 1..8 : (s \o t)[q] = s[q] /\ (s \o t)[q + 8] = t[q]
  <2> TAKE s, t \in Seq(Seq(Nat))
  <2>1. SUFFICES ASSUME Len(s) = 8, Len(t) = 8, NEW q \in 1..8
                 PROVE  (s \o t)[q] = s[q] /\ (s \o t)[q + 8] = t[q]
    OBVIOUS
  <2>2. q \in 1 .. Len(s) + Len(t) /\ q + 8 \in 1 .. Len(s) + Len(t) BY <2>1
  <2>3. (s \o t)[q] = s[q]
    <3>1. q <= Len(s) BY <2>1
    <3> QED BY <2>2, <3>1
  <2>4. (s \o t)[q + 8] = t[q]
    <3> DEFINE p == q + 8
    <3>1. p \in 1 .. Len(s) + Len(t) /\ p > Len(s) /\ p - Len(s) = q BY <2>1, <2>2
    <3> HIDE DEF p
    <3>2. (s \o t)[p] = t[p - Len(s)] BY <3>1
    <3> QED BY <3>1, <3>2 DEF p
  <2> QED BY <2>3, <2>4
<1> QED BY <1>1, <1>2, <1>3 DEF BothTables

LEMMA RowsAgree ==
  \A r \in 1..16 : \A c \in Columns : Agrees(Rows[r][c], Codes[r][c], BothTables[r][c])
<1>1. \A c \in Columns : Agrees(Rows[1][c], Codes[1][c], BothTables[1][c])
  <2>1. Rows[1] = Row0 /\ Codes[1] = Codes0 BY DEF Rows, Codes
  <2>2. BothTables[1] = TableLow[1] BY TableRows
  <2> QED BY <2>1, <2>2, Modes0, Types0, Fits0, Cycles0 DEF Agrees
<1>2. \A c \in Columns : Agrees(Rows[2][c], Codes[2][c], BothTables[2][c])
  <2>1. Rows[2] = Row1 /\ Codes[2] = Codes1 BY DEF Rows, Codes
  <2>2. BothTables[2] = TableLow[2] BY TableRows
  <2> QED BY <2>1, <2>2, Modes1, Types1, Fits1, Cycles1 DEF Agrees
<1>3. \A c \in Columns : Agrees(Rows[3][c], Codes[3][c], BothTables[3][c])
  <2>1. Rows[3] = Row2 /\ Codes[3] = Codes2 BY DEF Rows, Codes
  <2>2. BothTables[3] = TableLow[3] BY TableRows
  <2> QED BY <2>1, <2>2, Modes2, Types2, Fits2, Cycles2 DEF Agrees
<1>4. \A c \in Columns : Agrees(Rows[4][c], Codes[4][c], BothTables[4][c])
  <2>1. Rows[4] = Row3 /\ Codes[4] = Codes3 BY DEF Rows, Codes
  <2>2. BothTables[4] = TableLow[4] BY TableRows
  <2> QED BY <2>1, <2>2, Modes3, Types3, Fits3, Cycles3 DEF Agrees
<1>5. \A c \in Columns : Agrees(Rows[5][c], Codes[5][c], BothTables[5][c])
  <2>1. Rows[5] = Row4 /\ Codes[5] = Codes4 BY DEF Rows, Codes
  <2>2. BothTables[5] = TableLow[5] BY TableRows
  <2> QED BY <2>1, <2>2, Modes4, Types4, Fits4, Cycles4 DEF Agrees
<1>6. \A c \in Columns : Agrees(Rows[6][c], Codes[6][c], BothTables[6][c])
  <2>1. Rows[6] = Row5 /\ Codes[6] = Codes5 BY DEF Rows, Codes
  <2>2. BothTables[6] = TableLow[6] BY TableRows
  <2> QED BY <2>1, <2>2, Modes5, Types5, Fits5, Cycles5 DEF Agrees
<1>7. \A c \in Columns : Agrees(Rows[7][c], Codes[7][c], BothTables[7][c])
  <2>1. Rows[7] = Row6 /\ Codes[7] = Codes6 BY DEF Rows, Codes
  <2>2. BothTables[7] = TableLow[7] BY TableRows
  <2> QED BY <2>1, <2>2, Modes6, Types6, Fits6, Cycles6 DEF Agrees
<1>8. \A c \in Columns : Agrees(Rows[8][c], Codes[8][c], BothTables[8][c])
  <2>1. Rows[8] = Row7 /\ Codes[8] = Codes7 BY DEF Rows, Codes
  <2>2. BothTables[8] = TableLow[8] BY TableRows
  <2> QED BY <2>1, <2>2, Modes7, Types7, Fits7, Cycles7 DEF Agrees
<1>9. \A c \in Columns : Agrees(Rows[9][c], Codes[9][c], BothTables[9][c])
  <2>1. Rows[9] = Row8 /\ Codes[9] = Codes8 BY DEF Rows, Codes
  <2>2. BothTables[9] = TableHigh[1] BY TableRows
  <2> QED BY <2>1, <2>2, Modes8, Types8, Fits8, Cycles8 DEF Agrees
<1>10. \A c \in Columns : Agrees(Rows[10][c], Codes[10][c], BothTables[10][c])
  <2>1. Rows[10] = Row9 /\ Codes[10] = Codes9 BY DEF Rows, Codes
  <2>2. BothTables[10] = TableHigh[2] BY TableRows
  <2> QED BY <2>1, <2>2, Modes9, Types9, Fits9, Cycles9 DEF Agrees
<1>11. \A c \in Columns : Agrees(Rows[11][c], Codes[11][c], BothTables[11][c])
  <2>1. Rows[11] = RowA /\ Codes[11] = CodesA BY DEF Rows, Codes
  <2>2. BothTables[11] = TableHigh[3] BY TableRows
  <2> QED BY <2>1, <2>2, ModesA, TypesA, FitsA, CyclesA DEF Agrees
<1>12. \A c \in Columns : Agrees(Rows[12][c], Codes[12][c], BothTables[12][c])
  <2>1. Rows[12] = RowB /\ Codes[12] = CodesB BY DEF Rows, Codes
  <2>2. BothTables[12] = TableHigh[4] BY TableRows
  <2> QED BY <2>1, <2>2, ModesB, TypesB, FitsB, CyclesB DEF Agrees
<1>13. \A c \in Columns : Agrees(Rows[13][c], Codes[13][c], BothTables[13][c])
  <2>1. Rows[13] = RowC /\ Codes[13] = CodesC BY DEF Rows, Codes
  <2>2. BothTables[13] = TableHigh[5] BY TableRows
  <2> QED BY <2>1, <2>2, ModesC, TypesC, FitsC, CyclesC DEF Agrees
<1>14. \A c \in Columns : Agrees(Rows[14][c], Codes[14][c], BothTables[14][c])
  <2>1. Rows[14] = RowD /\ Codes[14] = CodesD BY DEF Rows, Codes
  <2>2. BothTables[14] = TableHigh[6] BY TableRows
  <2> QED BY <2>1, <2>2, ModesD, TypesD, FitsD, CyclesD DEF Agrees
<1>15. \A c \in Columns : Agrees(Rows[15][c], Codes[15][c], BothTables[15][c])
  <2>1. Rows[15] = RowE /\ Codes[15] = CodesE BY DEF Rows, Codes
  <2>2. BothTables[15] = TableHigh[7] BY TableRows
  <2> QED BY <2>1, <2>2, ModesE, TypesE, FitsE, CyclesE DEF Agrees
<1>16. \A c \in Columns : Agrees(Rows[16][c], Codes[16][c], BothTables[16][c])
  <2>1. Rows[16] = RowF /\ Codes[16] = CodesF BY DEF Rows, Codes
  <2>2. BothTables[16] = TableHigh[8] BY TableRows
  <2> QED BY <2>1, <2>2, ModesF, TypesF, FitsF, CyclesF DEF Agrees
<1> QED BY <1>1, <1>2, <1>3, <1>4, <1>5, <1>6, <1>7, <1>8, <1>9, <1>10, <1>11, <1>12, <1>13, <1>14, <1>15, <1>16

\* The two CPUs agree on every opcode, and the new one takes the cycles of the table.
LEMMA OpcodesAgree == ASSUME NEW o \in 0..255 PROVE Agrees(Decode[o], Arm[o], BaseCycles[o])
<1> DEFINE r == (o \div 16) + 1
           c == (o % 16) + 1
<1>1. r \in 1..16 /\ c \in Columns
  <2>1. \A n \in 0..255 : (n \div 16) \in 0..15 /\ (n % 16) \in 0..15 OBVIOUS
  <2>2. (o \div 16) \in 0..15 /\ (o % 16) \in 0..15 BY <2>1, Zenon
  <2>3. \A n \in 0..15 : n + 1 \in 1..16 OBVIOUS
  <2>4. \A n \in 1..16 : n \in Columns BY DEF Columns
  <2> QED BY <2>2, <2>3, <2>4, Zenon
<1>2. Decode[o] = Rows[r][c] /\ Arm[o] = Codes[r][c] /\ BaseCycles[o] = BothTables[r][c]
  BY Zenon DEF Decode, Arm, BaseCycles, BothTables
<1> HIDE DEF r, c
<1>3. \A k \in Columns : Agrees(Rows[r][k], Codes[r][k], BothTables[r][k]) BY <1>1, RowsAgree, Zenon
<1>4. Agrees(Rows[r][c], Codes[r][c], BothTables[r][c]) BY <1>1, <1>3, Zenon
<1> QED BY <1>2, <1>4, Zenon

LEMMA OpcodeAgrees ==
  ASSUME NEW o \in 0..255
  PROVE  /\ SameMode(Decode[o], Arm[o]) /\ SameType(Decode[o], Arm[o]) /\ Fits(Decode[o])
         /\ BaseCycles[o] = ModeLength(Decode[o]) + TypeLength(Decode[o][1])
BY OpcodesAgree, Zenon DEF Agrees

\* The kinds of the arms.

LEMMA KindsAre ==
  ASSUME NEW m
  PROVE  /\ <<m, "read">> \in Arms <=> m \in ReadMnemonics
         /\ <<m, "modify">> \in Arms <=> m \in ModifyMnemonics
         /\ <<m, "branch">> \in Arms <=> m \in BranchMnemonics
         /\ <<m, "store">> \in Arms <=> m \in {"STA", "STX", "STY", "SAX"}
         /\ <<m, "unstable">> \in Arms <=> m \in {"SXA", "SYA", "AXA", "XAS"}
         /\ <<m, "skip">> \in Arms <=> m = "DOP"
         /\ <<m, "halt">> \in Arms <=> m = "KIL"
         /\ <<m, "jump">> \in Arms <=> m = "JMP"
         /\ <<m, "call">> \in Arms <=> m = "JSR"
         /\ <<m, "rts">> \in Arms <=> m = "RTS"
         /\ <<m, "rti">> \in Arms <=> m = "RTI"
         /\ <<m, "brk">> \in Arms <=> m = "BRK"
         /\ <<m, "push">> \in Arms <=> m \in {"PHA", "PHP"}
         /\ <<m, "pull">> \in Arms <=> m \in {"PLA", "PLP"}
         /\ <<m, "register">> \in Arms <=> m \in RegisterMnemonics
BY DEF Arms, Kinds, ReadMnemonics, ModifyMnemonics, BranchMnemonics, RegisterMnemonics,
  ArmsAdc, ArmsAsl, ArmsCmp, ArmsDec, ArmsFlags, ArmsInc, ArmsLda, ArmsLsr, ArmsTransfer, ArmsRol,
  ArmsSbc, ArmsSta, ArmsStack, ArmsStx, ArmsAac, ArmsDcp, ArmsIsb, ArmsLar, ArmsRla, ArmsSlo,
  ArmsTop, ArmsJump, ArmsBranch

\* An entry of the decoder.
LEMMA OpIs ==
  ASSUME NEW o \in 0..255
  PROVE  /\ Mode(o) \in Modes
         /\ Mode(o) = "rel" <=> Type(o) \in Branches
         /\ Type(o) \in Implied => Mode(o) = "imp"
         /\ Type(o) = "Jmp" <=> (Mode(o) = "ind" \/ (Mode(o) = "abs" /\ Access(o) = "J"))
         /\ Mode(o) \in Carried => (Access(o) = "R" <=> Type(o) \notin Writers)
         /\ Type(o) \in {"Sxa", "Sya", "Xas"} => Mode(o) \in {"absx", "absy"}
<1> DEFINE d == Decode[o]
<1>1. Fits(d) BY OpcodeAgrees, Zenon
<1>2. Mode(o) = d[2] /\ Type(o) = d[1] /\ Access(o) = d[3] BY DEF Mode, Type, Access
<1> HIDE DEF d
<1> QED BY <1>1, <1>2 DEF Fits

LEMMA TypeStep ==
  ASSUME NEW s, NEW t, NEW u, NEW b \in Byte, Acting(s, t), s.i.op \in 0..255,
         Type(s.i.op) \in {"Sxa", "Sya", "Xas"} => s.i.addr \in Address,
         NEW v \in TypeEffects(s, b), Extends(u, t, v.io), u[Len(t) + 1] = v.io
  PROVE  Acts(v, s, u)
<1>1. Type(s.i.op) \in {"Jsr", "Rts", "Rti", "Brk"} => Mode(s.i.op) = "imp" BY OpIs DEF Implied
<1>2. CASE Type(s.i.op) \in Branches BY <1>2, EffectsAre, BranchStep
<1>3. CASE Type(s.i.op) = "Jmp" BY <1>3, EffectsAre, JmpStep
<1>4. CASE Type(s.i.op) = "Jsr" BY <1>1, <1>4, EffectsAre, JsrStep
<1>5. CASE Type(s.i.op) = "Rts" BY <1>1, <1>5, EffectsAre, RtsStep
<1>6. CASE Type(s.i.op) = "Rti" BY <1>1, <1>6, EffectsAre, RtiStep
<1>7. CASE Type(s.i.op) = "Brk" BY <1>1, <1>7, EffectsAre, BrkStep
<1>8. CASE Type(s.i.op) \in Pushes \cup Pulls BY <1>8, StackStep
<1>9. CASE Plain(Type(s.i.op)) BY <1>9, PlainStep
<1> QED BY <1>2, <1>3, <1>4, <1>5, <1>6, <1>7, <1>8, <1>9 DEF Plain, Leaps

LEMMA TypeDoneIs ==
  ASSUME NEW i, Type(i.op) # "Kil"
  PROVE  TypeDone(i) <=> i.ic = TypeCycles(i)
BY DEF TypeDone, BranchDone, TypeCycles, TypeLength, Branches, Modifies, Rotates, Pushes, Pulls

LEMMA ModeDoneBy ==
  ASSUME NEW x, NEW y, x.i.op = y.i.op, x.i.ac = y.i.ac, x.i.crossed = y.i.crossed
  PROVE  ModeDone(x) <=> ModeDone(y)
BY DEF ModeDone, ImpliedDone, AbsoluteDone, IndexedDone

LEMMA LocatedExtends ==
  ASSUME NEW i, NEW k \in Nat, NEW t, NEW u, Located(i, k, t),
         \A c \in 1 .. k + 1 : ReadIn(u, c) = ReadIn(t, c)
  PROVE  Located(i, k, u)
<1>1. k >= 1 => ReadIn(u, 2) = ReadIn(t, 2) OBVIOUS
<1>2. k >= 2 => ReadIn(u, 3) = ReadIn(t, 3) OBVIOUS
<1>3. k >= 3 => ReadIn(u, 4) = ReadIn(t, 4) OBVIOUS
<1>4. k >= 4 => ReadIn(u, 5) = ReadIn(t, 5) OBVIOUS
<1>5. k >= 2 => WordIn(u, 2) = WordIn(t, 2) BY <1>1, <1>2 DEF WordIn
<1>6. k >= 3 => WordIn(u, 3) = WordIn(t, 3) BY <1>2, <1>3 DEF WordIn
<1>7. k >= 4 => WordIn(u, 4) = WordIn(t, 4) BY <1>3, <1>4 DEF WordIn
<1> QED BY <1>1, <1>2, <1>3, <1>5, <1>6, <1>7 DEF Located

\* What a mode knows does not depend on the type.
LEMMA InModeBy ==
  ASSUME NEW i, NEW j, NEW k, NEW t, InMode(j, k, t), j.op \in 0..255,
         i.op = j.op, i.from = j.from, i.index = j.index, i.addr = j.addr, i.crossed = j.crossed,
         Type(j.op) # "Brk" => i.base = j.base
  PROVE  InMode(i, k, t)
<1>1. ModeCycles(i) = ModeCycles(j) BY DEF ModeCycles
<1>2. Type(j.op) = "Brk" => Mode(j.op) = "imp" BY OpIs DEF Implied
<1>3. Located(i, k, t) BY <1>2 DEF InMode, Located
<1> QED BY <1>1, <1>3 DEF InMode

LEMMA EffectSp ==
  ASSUME NEW i \in Ins, i.sp \in Byte, i.mask \in Byte, NEW at, NEW sp, NEW t, Effect(i, at, sp, t)
  PROVE  sp \in Byte
<1>1. \A k \in Byte : Up(k) \in Byte /\ Down(k) \in Byte BY Steps, ByteIs
<1>2. BitAnd(i.sp, i.mask) \in Byte BY AndFacts
<1>3. BranchEffect(i, at, sp) \/ JmpEffect(i, at, sp) => sp \in Byte BY DEF BranchEffect, JmpEffect
<1>4. JsrEffect(i, at, sp, t) => sp \in Byte BY <1>1 DEF JsrEffect
<1>5. RtsEffect(i, at, sp, t) => sp \in Byte BY <1>1 DEF RtsEffect
<1>6. RtiEffect(i, at, sp, t) => sp \in Byte BY <1>1 DEF RtiEffect
<1>7. BrkEffect(i, at, sp, t) => sp \in Byte BY <1>1 DEF BrkEffect
<1>8. StackEffect(i, at, sp) => sp \in Byte BY <1>1 DEF StackEffect
<1>9. PlainEffect(i, at, sp) => sp \in Byte BY <1>2 DEF PlainEffect
<1> QED BY <1>3, <1>4, <1>5, <1>6, <1>7, <1>8, <1>9 DEF Effect

\* A type is not ticked beyond its end.
LEMMA LengthKept ==
  ASSUME NEW s, NEW t, NEW b, Acting(s, t), NEW v \in TypeEffects(s, b), Kept(v.i, s.i),
         NEW j, Later(j, v.i)
  PROVE  j.ic \in 1 .. TypeCycles(j)
<1>1. s.i.ic \in Nat /\ s.i.ic + 1 <= TypeCycles(s.i) /\ TypeCycles(s.i) \in Int
  <2>1. TypeCycles(s.i) \in Int BY DEF TypeCycles, TypeLength
  <2> QED BY <2>1, ActingIs DEF Acting
<1>2. j.op = s.i.op /\ j.ic = s.i.ic + 1 BY DEF Kept, Later
<1>3. CASE Type(s.i.op) \notin Branches BY <1>1, <1>2, <1>3 DEF TypeCycles
<1>4. CASE Type(s.i.op) \in Branches
  <2>1. CASE s.i.ic = 0
    <3>1. TypeCycles(j) \in 1..3 BY <1>2, <1>4 DEF TypeCycles
    <3> QED BY <1>2, <2>1, <3>1
  <2>2. CASE s.i.ic # 0
    <3>1. v = s BY <1>4, <2>2, EffectsAre DEF BranchTicks
    <3>2. TypeCycles(j) = TypeCycles(s.i) BY <1>2, <3>1 DEF TypeCycles, Later
    <3> QED BY <1>1, <1>2, <3>2
  <2> QED BY <2>1, <2>2
<1> QED BY <1>3, <1>4

\* The modes that add an index yield an address.
LEMMA AddrIs ==
  ASSUME NEW i \in Ins, NEW t, Mode(i.op) \in {"absx", "absy"}, InMode(i, i.ac, t), i.ac >= 2
  PROVE  i.addr \in Address
<1>1. i.addr = Plus(i.base, i.index) BY DEF InMode, Located
<1>2. i.base \in Int /\ i.index \in Int BY DEF Ins
<1> QED BY <1>1, <1>2, SizeAssumption, Z3 DEF Plus, Address

LEMMA AppendIs ==
  ASSUME NEW t \in Seq(Seq(Bus)), NEW io
  PROVE  /\ Len(Append(t, io)) = Len(t) + 1 /\ Len(t) \in Nat
         /\ \A c \in 1 .. Len(t) : Append(t, io)[c] = t[c]
         /\ Append(t, io)[Len(t) + 1] = io
         /\ io \in Seq(Bus) => Append(t, io) \in Seq(Seq(Bus))
<1> DEFINE S == Seq(Bus) \cup {io}
<1>1. t \in Seq(S) /\ io \in S OBVIOUS
<1> HIDE DEF S
<1>2. /\ Len(Append(t, io)) = Len(t) + 1 /\ Len(t) \in Nat
      /\ \A c \in 1 .. Len(t) : Append(t, io)[c] = t[c]
      /\ Append(t, io)[Len(t) + 1] = io
  BY <1>1
<1> QED BY <1>2

\* The cycle that ends with io begins with any part of it.
LEMMA AppendExtends ==
  ASSUME NEW t \in Seq(Seq(Bus)), NEW io, NEW first, Begins(io, first)
  PROVE  Extends(Append(t, io), t, first)
BY AppendIs DEF Extends, Begins

LEMMA RunningIs ==
  ASSUME NEW s, NEW t, Running(s, t)
  PROVE  /\ s \in Moment /\ s.i \in Ins /\ s.pc \in Int /\ s.sp \in Int /\ s.i.ac \in Nat
         /\ s.i.ic \in Nat /\ s.i.from \in Int
BY DEF Running, Moment, Ins, InMode

\* A moment is known by its instruction, pc and sp.
LEMMA RunningBy ==
  ASSUME NEW s, NEW t, Running(s, t), NEW y \in Moment, y.i = s.i, y.pc = s.pc, y.sp = s.sp
  PROVE  Running(y, t)
<1>1. ModeDone(y) <=> ModeDone(s) BY ModeDoneBy
<1> QED BY <1>1 DEF Running

\* A mode before one of its ticks.
LEMMA TickingNext ==
  ASSUME NEW s, NEW t, Running(s, t), s.io = <<>>, ~ModeDone(s)
  PROVE  /\ s \in Moment /\ s.i.ac \in Nat /\ s.i.ic = 0 /\ Mode(s.i.op) \in Modes /\ s.i.op \in 0..255
         /\ Ticking(s, t) /\ t \in Seq(Seq(Bus)) /\ Len(t) = s.i.ac + 1
<1>1. s \in Moment /\ s.i.ac \in Nat /\ s.i.op \in 0..255 /\ s.i.ic \in Nat /\ t \in Seq(Seq(Bus))
  BY RunningIs DEF Running
<1>2. s.i.ic = 0 BY <1>1 DEF Running
<1>3. Mode(s.i.op) \in Modes BY <1>1, OpIs
<1>4. s.pc = Behind(s.i) BY <1>2 DEF Running, Started
<1>5. Len(t) = s.i.ac + 1 BY <1>1, <1>2 DEF Running, Elapsed
<1>6. Ticking(s, t) BY <1>1, <1>4, <1>5 DEF Ticking, Running, Behind
<1> QED BY <1>1, <1>2, <1>3, <1>5, <1>6

\* A cycle in which only the mode ticks.
LEMMA ModeOnly ==
  ASSUME NEW s, NEW t, Running(s, t), s.io = <<>>, NEW b \in Byte,
         ~ModeDone(s), ~ModeDone(ModeTick(s, b))
  PROVE  LET m == ModeTick(s, b) IN Running(m, Append(t, m.io)) /\ m.i.op = s.i.op
<1> DEFINE m == ModeTick(s, b)
           u == Append(t, m.io)
<1>1. /\ s \in Moment /\ s.i.ac \in Nat /\ s.i.ic = 0 /\ Mode(s.i.op) \in Modes /\ s.i.op \in 0..255
      /\ Ticking(s, t) /\ t \in Seq(Seq(Bus)) /\ Len(t) = s.i.ac + 1
  BY TickingNext
<1>2. Ticking(s, t) BY <1>1
<1>3. t \in Seq(Seq(Bus)) BY <1>1
<1>4. Extends(u, t, m.io)
  <2> HIDE DEF m
  <2> QED BY <1>3, AppendExtends DEF Begins
<1>5. /\ m \in Moment /\ m.sp = s.sp /\ Same(m.i, s.i) /\ m.i.ac = s.i.ac + 1
      /\ m.pc = Plus(s.i.from, 1 + OperandsRead(s.i.op, m.i.ac))
      /\ InMode(m.i, m.i.ac, u)
  BY <1>1, <1>2, <1>4, ModeTicks
<1> HIDE DEF m
<1>6. u \in Seq(Seq(Bus)) /\ Len(u) = Len(t) + 1 BY <1>3, <1>5, AppendIs DEF Moment
<1>7. Len(u) = Elapsed(m.i)
  <2>1. m.i.ic = 0 /\ m.i.ac = s.i.ac + 1 BY <1>1, <1>5 DEF Same
  <2> QED BY <1>1, <1>2, <1>6, <2>1 DEF Elapsed, Ticking
<1> HIDE DEF u
<1>8. Started(m.i, m.pc, m.sp, u)
  <2>1. m.i.ic = 0 /\ m.i.op = s.i.op /\ m.i.from = s.i.from /\ m.i.sp = s.i.sp /\ m.i.taken = s.i.taken
    BY <1>1, <1>5 DEF Same
  <2>2. s.sp = s.i.sp /\ ~s.i.taken BY <1>1 DEF Running, Started
  <2>3. m.pc = Behind(m.i) BY <1>5, <2>1 DEF Behind
  <2> QED BY <1>5, <2>1, <2>2, <2>3 DEF Started
<1>9. ~ModeDone(m) BY DEF m
<1>10. m.i.op = s.i.op /\ m.i.sp = s.i.sp /\ m.i.mask = s.i.mask /\ m.i.ic = 0 BY <1>1, <1>5 DEF Same
<1>11. Running(m, u) BY <1>1, <1>5, <1>6, <1>7, <1>8, <1>9, <1>10 DEF Running
<1> QED BY <1>10, <1>11 DEF m, u

\* A cycle in which the type ticks: m is the state the mode has left in it.
LEMMA TypeTicked ==
  ASSUME NEW t \in Seq(Seq(Bus)), NEW m, Acting(m, t), ModeDone(m), m.i.op \in 0..255, m.i.ac \in Nat,
         Type(m.i.op) \in {"Sxa", "Sya", "Xas"} => m.i.addr \in Address,
         \A u : Extends(u, t, m.io) => InMode(m.i, m.i.ac, u),
         Len(t) = IF m.i.ac > 0 THEN m.i.ac + m.i.ic ELSE 1 + m.i.ic,
         NEW b \in Byte, NEW v \in TypeEffects(m, b)
  PROVE  LET w == IcDone(v) IN Running(w, Append(t, w.io)) /\ w.i.op = m.i.op
<1> DEFINE u == Append(t, v.io)
           w == IcDone(v)
<1>1. Extends(u, t, v.io) /\ u[Len(t) + 1] = v.io
  <2>1. Begins(v.io, v.io) BY DEF Begins
  <2> QED BY <2>1, AppendExtends, AppendIs
<1>2. Acts(v, m, u)
  <2> HIDE DEF u
  <2> QED BY <1>1, TypeStep
<1>3. /\ v \in Moment /\ Begins(v.io, m.io) /\ Kept(v.i, m.i) /\ v.io \in Seq(Bus)
      /\ \A j : Later(j, v.i) => Effect(j, v.pc, v.sp, u)
  <2> HIDE DEF u
  <2> QED BY <1>2 DEF Acts, Acted, Moment
<1>4. Extends(u, t, m.io) BY <1>3, AppendExtends
<1>5. u \in Seq(Seq(Bus)) /\ Len(u) = Len(t) + 1 BY <1>3, AppendIs
<1> HIDE DEF u
<1>6. w \in Moment /\ Later(w.i, v.i) /\ w.pc = v.pc /\ w.sp = v.sp /\ w.io = v.io BY <1>3, IcDoneIs
<1> HIDE DEF w
<1>7. /\ w.i.op = m.i.op /\ w.i.from = m.i.from /\ w.i.sp = m.i.sp /\ w.i.index = m.i.index
      /\ w.i.mask = m.i.mask /\ w.i.ac = m.i.ac /\ w.i.addr = m.i.addr /\ w.i.crossed = m.i.crossed
      /\ w.i.ic = m.i.ic + 1 /\ (Type(m.i.op) # "Brk" => w.i.base = m.i.base)
  BY <1>3, <1>6 DEF Kept, Later
<1>8. InMode(w.i, w.i.ac, u)
  <2>1. InMode(m.i, m.i.ac, u) BY <1>4
  <2>2. InMode(w.i, m.i.ac, u) BY <1>7, <2>1, InModeBy
  <2> QED BY <1>7, <2>2
<1>9. ModeDone(w)
  <2>1. ModeDone(w) <=> ModeDone(m) BY <1>7, ModeDoneBy
  <2> QED BY <2>1
<1>10. w.i.ic \in 1 .. TypeCycles(w.i) BY <1>3, <1>6, LengthKept
<1>11. m.i.ic \in Nat /\ w.i \in Ins /\ w.i.sp \in Byte /\ w.i.mask \in Byte
  BY <1>6, <1>7, ActingIs DEF Moment, Acting
<1>12. w.i.ic \in Nat /\ w.i.ic > 0 BY <1>7, <1>11
<1>13. Effect(w.i, w.pc, w.sp, u) BY <1>3, <1>6
<1>14. w.sp \in Byte BY <1>11, <1>13, EffectSp
<1>15. Started(w.i, w.pc, w.sp, u) BY <1>10, <1>12, <1>13 DEF Started
<1>16. Len(u) = Elapsed(w.i)
  <2>1. Elapsed(w.i) = IF w.i.ac > 0 THEN w.i.ac + w.i.ic ELSE 1 + w.i.ac + w.i.ic BY <1>12 DEF Elapsed
  <2>2. w.i.ac = m.i.ac /\ w.i.ic = m.i.ic + 1 BY <1>7
  <2> DEFINE a == m.i.ac
             c == m.i.ic
  <2>3. a \in Nat /\ c \in Nat /\ Len(t) = IF a > 0 THEN a + c ELSE 1 + c BY <1>11
  <2>4. Elapsed(w.i) = IF a > 0 THEN a + (c + 1) ELSE 1 + a + (c + 1) BY <2>1, <2>2
  <2> HIDE DEF a, c
  <2>5. CASE a > 0
    <3>1. Len(t) = a + c /\ Elapsed(w.i) = a + (c + 1) BY <2>3, <2>4, <2>5
    <3>2. Len(u) = (a + c) + 1 BY <1>5, <3>1
    <3>3. (a + c) + 1 = a + (c + 1) BY <2>3
    <3> QED BY <3>1, <3>2, <3>3
  <2>6. CASE ~(a > 0)
    <3>1. Len(t) = 1 + c /\ Elapsed(w.i) = 1 + a + (c + 1) /\ a = 0 BY <2>3, <2>4, <2>6
    <3>2. Len(u) = (1 + c) + 1 BY <1>5, <3>1
    <3>3. (1 + c) + 1 = 1 + a + (c + 1) BY <2>3, <3>1
    <3> QED BY <3>1, <3>2, <3>3
  <2> QED BY <2>5, <2>6
<1>17. Running(w, u)
  BY <1>5, <1>6, <1>7, <1>8, <1>9, <1>11, <1>12, <1>14, <1>15, <1>16 DEF Running
<1> QED BY <1>6, <1>7, <1>17 DEF w, u

\* A type before its first tick, or between two.
LEMMA ActingNext ==
  ASSUME NEW s, NEW t, Running(s, t), s.io = <<>>, ModeDone(s), ~TypeDone(s.i), Type(s.i.op) # "Kil"
  PROVE  Acting(s, t)
<1>1. s \in Moment /\ s.i.ic \in Nat /\ s.i.ac \in Nat BY RunningIs
<1>2. s.i.ic # TypeCycles(s.i) BY TypeDoneIs
<1>3. TypeCycles(s.i) \in Nat /\ TypeCycles(s.i) >= 1 BY DEF TypeCycles, TypeLength
<1>4. s.i.ic > 0 => s.i.ic \in 1 .. TypeCycles(s.i) BY <1>1 DEF Running, Started
<1>5. s.i.ic \in 0 .. TypeCycles(s.i) - 1 BY <1>1, <1>2, <1>3, <1>4
<1>6. ASSUME Mode(s.i.op) = "imp" PROVE s.i.ac = 0 /\ Len(t) = s.i.ic + 1
  <2>1. s.i.ac = 0 BY <1>1, <1>6 DEF Running, InMode, ModeCycles
  <2> QED BY <1>1, <2>1 DEF Running, Elapsed
<1> QED BY <1>1, <1>5, <1>6 DEF Acting, Running

LEMMA MaskedAddr ==
  ASSUME NEW i \in Ins, NEW t, i.op \in 0..255, InMode(i, i.ac, t), Type(i.op) \in {"Sxa", "Sya", "Xas"},
         i.ac \in Nat, i.ac >= 2
  PROVE  i.addr \in Address
<1>1. Mode(i.op) \in {"absx", "absy"} BY OpIs
<1> QED BY <1>1, AddrIs

\* A cycle of the type alone.
LEMMA TypeOnly ==
  ASSUME NEW s, NEW t, Running(s, t), s.io = <<>>, ModeDone(s), ~TypeDone(s.i), Type(s.i.op) # "Kil",
         NEW b \in Byte, NEW v \in TypeEffects(s, b)
  PROVE  LET w == IcDone(v) IN Running(w, Append(t, w.io)) /\ w.i.op = s.i.op
<1>1. Acting(s, t) BY ActingNext
<1>2. s \in Moment /\ s.i \in Ins /\ s.i.ic \in Nat /\ s.i.ac \in Nat BY RunningIs
<1>3. t \in Seq(Seq(Bus)) /\ s.i.op \in 0..255 /\ InMode(s.i, s.i.ac, t) /\ Len(t) = Elapsed(s.i)
  BY DEF Running
<1>4. Type(s.i.op) \in {"Sxa", "Sya", "Xas"} => s.i.addr \in Address
  <2>1. SUFFICES ASSUME Type(s.i.op) \in {"Sxa", "Sya", "Xas"} PROVE s.i.addr \in Address OBVIOUS
  <2>2. Mode(s.i.op) \in {"absx", "absy"} BY <1>3, <2>1, OpIs
  <2>3. s.i.ac >= 2 BY <1>2, <2>2, ModeDoneIs DEF IndexedDone
  <2> QED BY <1>2, <1>3, <2>1, <2>3, MaskedAddr
<1>5. ASSUME NEW u, Extends(u, t, s.io) PROVE InMode(s.i, s.i.ac, u)
  <2>1. s.i.ac + 1 <= Len(t) /\ Len(t) \in Nat
    <3>1. Len(t) \in Nat BY <1>3, AppendIs
    <3>2. s.i.ac > 0 => s.i.ic > 0 BY DEF Running
    <3> QED BY <1>2, <1>3, <3>1, <3>2 DEF Elapsed
  <2>2. \A c \in 1 .. s.i.ac + 1 : ReadIn(u, c) = ReadIn(t, c)
    <3>1. \A c \in 1 .. s.i.ac + 1 : c \in 1 .. Len(t) BY <1>2, <2>1
    <3>2. \A c \in 1 .. Len(t) : u[c] = t[c] BY <1>5 DEF Extends
    <3> QED BY <3>1, <3>2 DEF ReadIn
  <2>3. Located(s.i, s.i.ac, t) BY <1>3 DEF InMode
  <2>4. Located(s.i, s.i.ac, u) BY <1>2, <2>2, <2>3, LocatedExtends
  <2> QED BY <1>3, <2>4 DEF InMode
<1>6. Len(t) = IF s.i.ac > 0 THEN s.i.ac + s.i.ic ELSE 1 + s.i.ic
  <2>1. s.i.ac > 0 => s.i.ic > 0 BY DEF Running
  <2> QED BY <1>2, <1>3, <2>1 DEF Elapsed
<1> QED BY <1>1, <1>2, <1>3, <1>4, <1>5, <1>6, TypeTicked

\* A cycle that ends the mode and begins the type.
LEMMA ModeAndType ==
  ASSUME NEW s, NEW t, Running(s, t), s.io = <<>>, Type(s.i.op) # "Kil", NEW b \in Byte,
         ~ModeDone(s), ModeDone(ModeTick(s, b)), NEW v \in TypeEffects(ModeTick(s, b), b)
  PROVE  LET w == IcDone(v) IN Running(w, Append(t, w.io)) /\ w.i.op = s.i.op
<1> DEFINE m == ModeTick(s, b)
<1>1. /\ s \in Moment /\ s.i.ac \in Nat /\ s.i.ic = 0 /\ Mode(s.i.op) \in Modes /\ s.i.op \in 0..255
      /\ Ticking(s, t) /\ t \in Seq(Seq(Bus)) /\ Len(t) = s.i.ac + 1
  BY TickingNext
<1>2. \A u : Extends(u, t, m.io) =>
        /\ m \in Moment /\ m.sp = s.sp /\ Same(m.i, s.i) /\ m.i.ac = s.i.ac + 1
        /\ m.pc = Plus(s.i.from, 1 + OperandsRead(s.i.op, m.i.ac))
        /\ InMode(m.i, m.i.ac, u)
  BY <1>1, ModeTicks
<1>3. Extends(Append(t, m.io), t, m.io)
  <2> HIDE DEF m
  <2> QED BY <1>1, AppendExtends DEF Begins
<1> HIDE DEF m
<1>4. /\ m \in Moment /\ m.sp = s.sp /\ Same(m.i, s.i) /\ m.i.ac = s.i.ac + 1
      /\ m.pc = Plus(s.i.from, 1 + OperandsRead(s.i.op, m.i.ac))
  BY <1>2, <1>3
<1>5. m.i.ic = 0 /\ m.i.op = s.i.op /\ m.i.sp = s.i.sp /\ m.i.mask = s.i.mask /\ m.i.from = s.i.from
      /\ ~m.i.taken /\ s.sp = s.i.sp /\ s.i.sp \in Byte /\ s.i.mask \in Byte
  BY <1>1, <1>4 DEF Same, Running, Started
<1>6. Started(m.i, m.pc, m.sp, t)
  <2>1. m.pc = Behind(m.i) BY <1>4, <1>5 DEF Behind
  <2> QED BY <1>4, <1>5, <2>1 DEF Started
<1>7. Mode(m.i.op) # "imp" BY <1>1, <1>5, ModeDoneIs DEF Ticking
<1>8. Acting(m, t)
  <2>1. m.i.ic \in 0 .. TypeCycles(m.i) - 1
    <3>1. TypeCycles(m.i) \in Nat /\ TypeCycles(m.i) >= 1 BY DEF TypeCycles, TypeLength
    <3> QED BY <1>5, <3>1
  <2> QED BY <1>4, <1>5, <1>6, <1>7, <2>1 DEF Acting
<1>9. Type(m.i.op) \in {"Sxa", "Sya", "Xas"} => m.i.addr \in Address
  <2>1. SUFFICES ASSUME Type(m.i.op) \in {"Sxa", "Sya", "Xas"} PROVE m.i.addr \in Address OBVIOUS
  <2>2. Mode(m.i.op) \in {"absx", "absy"} BY <1>1, <1>5, <2>1, OpIs
  <2>3. m.i.ac >= 2
    <3>1. ModeDone(m) BY DEF m
    <3>2. m.i.ac \in Nat BY <1>1, <1>4
    <3> QED BY <2>2, <3>1, <3>2, ModeDoneIs DEF IndexedDone
  <2>4. InMode(m.i, m.i.ac, Append(t, m.io)) BY <1>2, <1>3
  <2>5. m.i \in Ins /\ m.i.ac \in Nat /\ m.i.op \in 0..255 BY <1>1, <1>4, <1>5 DEF Moment
  <2> QED BY <2>1, <2>3, <2>4, <2>5, MaskedAddr
<1>10. Len(t) = IF m.i.ac > 0 THEN m.i.ac + m.i.ic ELSE 1 + m.i.ic
  BY <1>1, <1>4, <1>5
<1>11. \A u : Extends(u, t, m.io) => InMode(m.i, m.i.ac, u) BY <1>2
<1>12. ModeDone(m) /\ v \in TypeEffects(m, b) BY DEF m
<1>13. m.i.ac \in Nat /\ m.i.op \in 0..255 BY <1>1, <1>4, <1>5
<1> QED BY <1>1, <1>5, <1>8, <1>9, <1>10, <1>11, <1>12, <1>13, TypeTicked

\* Any cycle but the first.
LEMMA TickKeeps ==
  ASSUME NEW s, NEW t, Running(s, t), s.io = <<>>, ~InstructionDone(s), Type(s.i.op) # "Kil",
         NEW b \in Byte, NEW w \in InstructionTicks(s, b)
  PROVE  Running(w, Append(t, w.io)) /\ w.i.op = s.i.op
<1>1. CASE ModeDone(s)
  <2>1. PICK v \in TypeEffects(s, b) : w = IcDone(v) BY <1>1 DEF InstructionTicks, TypeTicks
  <2>2. ~TypeDone(s.i) BY <1>1 DEF InstructionDone
  <2> QED BY <1>1, <2>1, <2>2, TypeOnly
<1>2. CASE ~ModeDone(s) /\ ModeDone(ModeTick(s, b))
  <2>1. PICK v \in TypeEffects(ModeTick(s, b), b) : w = IcDone(v) BY <1>2 DEF InstructionTicks, TypeTicks
  <2> QED BY <1>2, <2>1, ModeAndType
<1>3. CASE ~ModeDone(s) /\ ~ModeDone(ModeTick(s, b))
  <2>1. w = ModeTick(s, b) BY <1>3 DEF InstructionTicks
  <2> QED BY <1>3, <2>1, ModeOnly
<1> QED BY <1>1, <1>2, <1>3

Cpus == [pc : Int, sp : Byte, halted : BOOLEAN, busy : BOOLEAN]

LEMMA DecodedIs ==
  ASSUME cpu \in Cpus, NEW o \in Int, NEW x \in Byte, NEW m \in Byte
  PROVE  LET i == Decoded(o, x, m)
         IN  /\ i \in Ins /\ i.op = o /\ i.from = cpu.pc /\ i.sp = cpu.sp /\ i.mask = m
             /\ i.sp \in Byte /\ i.ac = 0 /\ i.ic = 0 /\ ~i.taken
<1>1. cpu.pc \in Int /\ cpu.sp \in Int /\ x \in Int /\ m \in Int /\ cpu.sp \in Byte BY ByteIs DEF Cpus
<1> QED BY <1>1 DEF Decoded, Ins

LEMMA StateIs ==
  ASSUME cpu \in Cpus, ins \in Ins
  PROVE  State \in Moment /\ State.pc = cpu.pc /\ State.sp = cpu.sp /\ State.i = ins /\ State.io = <<>>
<1>1. cpu.pc \in Int /\ cpu.sp \in Int BY ByteIs DEF Cpus
<1>2. <<>> \in Seq(Bus) OBVIOUS
<1> QED BY <1>1, <1>2 DEF State, Moment

LEMMA ZeroByte == 0 \in Byte /\ NoOpcode \in Int /\ NoOpcode \notin 0..255
BY SizeAssumption DEF Byte, NoOpcode

LEMMA FoundIs == ASSUME NEW kind, NEW kinds PROVE Found(kind, kinds) \subseteq Byte
BY ProgramAssumption, ZeroByte DEF Found, Byte

\* An instruction that has just been decoded.
LEMMA FetchedRuns ==
  ASSUME NEW s \in Moment, s.sp \in Byte, s.i.sp = s.sp, s.i.mask \in Byte, s.i.op \in 0..255,
         s.i.ac = 0, s.i.ic = 0, ~s.i.taken, s.pc = Plus(s.i.from, 1), NEW a \in Int
  PROVE  Running(s, <<<<Peek(a)>>>>) /\ ~InstructionDone(s)
<1> DEFINE t == <<<<Peek(a)>>>>
<1>1. t \in Seq(Seq(Bus)) /\ Len(t) = 1
  <2>1. Peek(a) \in Bus BY ReadIs
  <2>2. <<Peek(a)>> \in Seq(Bus) BY <2>1
  <2> QED BY <2>2
<1> HIDE DEF t
<1>2. Elapsed(s.i) = 1 BY DEF Elapsed
<1>3. InMode(s.i, s.i.ac, t)
  <2>1. 0 \in 0 .. ModeCycles(s.i) BY DEF ModeCycles
  <2>2. Located(s.i, 0, t) BY DEF Located
  <2> QED BY <2>1, <2>2 DEF InMode
<1>4. Started(s.i, s.pc, s.sp, t)
  <2>1. OperandsRead(s.i.op, 0) = 0 BY DEF OperandsRead
  <2>2. s.pc = Behind(s.i) BY <2>1 DEF Behind
  <2> QED BY <2>2 DEF Started
<1>5. ~TypeDone(s.i)
  <2>1. CASE Type(s.i.op) = "Kil" BY <2>1 DEF TypeDone, KilDone, Branches, Modifies, Rotates
  <2>2. CASE Type(s.i.op) # "Kil"
    <3>1. TypeCycles(s.i) # 0 BY DEF TypeCycles, TypeLength
    <3> QED BY <2>2, <3>1, TypeDoneIs
  <2> QED BY <2>1, <2>2
<1>6. Running(s, t) BY <1>1, <1>2, <1>3, <1>4 DEF Running
<1> QED BY <1>5, <1>6 DEF InstructionDone, t

LEMMA StackReads == \A k \in Int : Stack(k) \in Int /\ Peek(Stack(k)) \in Bus
<1> TAKE k \in Int
<1>1. k + B \in Int /\ B \in Int BY BytesAre
<1>2. Low(k + B) \in Int BY <1>1, BytesAre
<1>3. Stack(k) \in Int BY <1>1, <1>2 DEF Stack, Low
<1> QED BY <1>3, ReadIs

-----------------------------------------------------------------------------
LEMMA BusStarts == BusInit => BusInv
<1> SUFFICES ASSUME BusInit PROVE BusInv OBVIOUS
<1>1. cpu \in Cpus
  <2>1. \A a \in Code : a \in Int BY ProgramAssumption
  <2>2. cpu \in [pc : Code, sp : Byte, halted : {FALSE}, busy : {FALSE}] BY DEF BusInit
  <2> QED BY <2>1, <2>2 DEF Cpus
<1>2. ins = Decoded(NoOpcode, 0, 0) /\ trace = <<>> /\ cpu.busy = FALSE BY DEF BusInit
<1>3. ins \in Ins /\ ins.sp \in Byte /\ ins.mask \in Byte /\ ins.ic \in Nat /\ ins.op = NoOpcode
  BY <1>1, <1>2, ZeroByte, DecodedIs
<1>4. trace \in Seq(Seq(Bus)) BY <1>2
<1>5. BusTypes BY <1>1, <1>3, <1>4 DEF BusTypes, Cpus
<1> QED BY <1>2, <1>3, <1>5 DEF BusInv

\* Between two instructions, and after an interrupt or a reset.
LEMMA IdleKeeps ==
  ASSUME cpu \in Cpus, cpu' \in Cpus, ins' = Decoded(NoOpcode, 0, 0), trace' \in Seq(Seq(Bus)),
         ~cpu'.busy \/ cpu'.halted
  PROVE  BusInv'
<1>1. ins' \in Ins /\ ins'.sp \in Byte /\ ins'.mask \in Byte /\ ins'.ic \in Nat /\ ins'.op = NoOpcode
  BY ZeroByte, DecodedIs
<1>2. BusTypes' BY <1>1 DEF BusTypes, Cpus
<1> QED BY <1>1, <1>2 DEF BusInv

LEMMA FetchKeeps == ASSUME BusInv, NEW o \in Program, FetchOpcode(o) PROVE BusInv'
<1>1. cpu \in Cpus BY DEF BusInv, BusTypes, Cpus
<1>2. PICK x \in Byte, m \in Byte : ins' = Decoded(o, x, m) BY FoundIs DEF FetchOpcode
<1>3. o \in 0..255 /\ o \in Int BY ProgramAssumption
<1>4. /\ ins' \in Ins /\ ins'.op = o /\ ins'.from = cpu.pc /\ ins'.sp = cpu.sp /\ ins'.mask = m
      /\ ins'.sp \in Byte /\ ins'.ac = 0 /\ ins'.ic = 0 /\ ~ins'.taken
  BY <1>1, <1>2, <1>3, DecodedIs
<1>5. cpu.pc \in Int /\ Plus(cpu.pc, 1) \in Int
  <2>1. cpu.pc \in Int BY <1>1 DEF Cpus
  <2>2. \A n \in Int : Plus(cpu.pc, n) \in Int BY <2>1, PlusIs
  <2> QED BY <2>1, <2>2
<1>6. cpu' = [cpu EXCEPT !.pc = Plus(cpu.pc, 1), !.busy = TRUE, !.halted = (Type(o) = "Kil")]
      /\ trace' = <<<<Peek(cpu.pc)>>>>
  BY DEF FetchOpcode
<1>7. /\ cpu' \in Cpus /\ cpu'.pc = Plus(cpu.pc, 1) /\ cpu'.sp = cpu.sp /\ cpu'.busy = TRUE
      /\ cpu'.halted = (Type(o) = "Kil")
  BY <1>1, <1>5, <1>6 DEF Cpus
<1> DEFINE s == State'
<1>8. s \in Moment /\ s.pc = cpu'.pc /\ s.sp = cpu'.sp /\ s.i = ins' /\ s.io = <<>>
  <2>1. cpu'.pc \in Int /\ cpu'.sp \in Int BY <1>7, ByteIs DEF Cpus
  <2>2. <<>> \in Seq(Bus) OBVIOUS
  <2>3. s = [pc |-> cpu'.pc, sp |-> cpu'.sp, i |-> ins', io |-> <<>>] BY DEF State
  <2> QED BY <1>4, <2>1, <2>2, <2>3 DEF Moment
<1> HIDE DEF s
<1>9. Running(s, trace') /\ ~InstructionDone(s)
  <2>1. /\ s \in Moment /\ s.sp \in Byte /\ s.i.sp = s.sp /\ s.i.mask \in Byte /\ s.i.op \in 0..255
        /\ s.i.ac = 0 /\ s.i.ic = 0 /\ ~s.i.taken /\ s.pc = Plus(s.i.from, 1)
    BY <1>3, <1>4, <1>7, <1>8
  <2>2. Running(s, <<<<Peek(cpu.pc)>>>>) /\ ~InstructionDone(s) BY <1>5, <2>1, FetchedRuns
  <2> QED BY <1>6, <2>2
<1>10. InstructionInv' BY <1>4, <1>7, <1>9 DEF InstructionInv, s
<1>11. BusTypes'
  <2>1. trace' \in Seq(Seq(Bus)) BY <1>9 DEF Running
  <2>2. ins'.ic \in Nat BY <1>4
  <2> QED BY <1>4, <1>7, <2>1, <2>2 DEF BusTypes, Cpus
<1>12. ins'.op # NoOpcode BY <1>3, <1>4, ZeroByte
<1> QED BY <1>10, <1>11, <1>12 DEF BusInv

LEMMA BusTickKeeps == ASSUME BusInv, NEW b \in Byte, Tick(b) PROVE BusInv'
<1>1. /\ cpu \in Cpus /\ ins \in Ins /\ cpu.busy /\ ~cpu.halted /\ InstructionInv
  BY DEF BusInv, BusTypes, Cpus, Tick
<1>2. Running(State, trace) /\ ~InstructionDone(State) /\ Type(ins.op) # "Kil" BY <1>1 DEF InstructionInv
<1>3. PICK w \in InstructionTicks(State, b) :
        /\ cpu' = [cpu EXCEPT !.pc = w.pc, !.sp = w.sp, !.busy = ~InstructionDone(w)]
        /\ ins' = w.i /\ trace' = Append(trace, w.io)
  BY DEF Tick
<1>4. State.i = ins /\ State.io = <<>> BY <1>1, StateIs
<1>5. Running(w, trace') /\ w.i.op = ins.op
  <2>1. Running(w, Append(trace, w.io)) /\ w.i.op = State.i.op BY <1>2, <1>4, TickKeeps
  <2> QED BY <1>3, <1>4, <2>1
<1>6. w.pc \in Int /\ w.sp \in Byte /\ w.i \in Ins /\ w.i.sp \in Byte /\ w.i.mask \in Byte /\ w.i.ic \in Nat
      /\ trace' \in Seq(Seq(Bus)) /\ ins.op \in 0..255
  BY <1>5, RunningIs DEF Running
<1>7. /\ cpu' \in Cpus /\ cpu'.pc = w.pc /\ cpu'.sp = w.sp /\ cpu'.busy = ~InstructionDone(w)
      /\ cpu'.halted = cpu.halted
  <2> DEFINE done == InstructionDone(w)
  <2>1. cpu' = [cpu EXCEPT !.pc = w.pc, !.sp = w.sp, !.busy = ~done] BY <1>3
  <2> HIDE DEF done
  <2>2. /\ cpu' \in Cpus /\ cpu'.pc = w.pc /\ cpu'.sp = w.sp /\ cpu'.busy = ~done
        /\ cpu'.halted = cpu.halted
    BY <1>1, <1>6, <2>1 DEF Cpus
  <2> QED BY <2>2 DEF done
<1> DEFINE s == State'
<1>8. s \in Moment /\ s.pc = w.pc /\ s.sp = w.sp /\ s.i = w.i
  <2>1. cpu'.pc \in Int /\ cpu'.sp \in Int BY <1>7, ByteIs DEF Cpus
  <2>2. <<>> \in Seq(Bus) OBVIOUS
  <2>3. s = [pc |-> cpu'.pc, sp |-> cpu'.sp, i |-> ins', io |-> <<>>] BY DEF State
  <2> QED BY <1>3, <1>6, <1>7, <2>1, <2>2, <2>3 DEF Moment
<1> HIDE DEF s
<1>9. Running(s, trace') BY <1>5, <1>8, RunningBy
<1>10. InstructionDone(s) <=> InstructionDone(w)
  <2>1. ModeDone(s) <=> ModeDone(w) BY <1>8, ModeDoneBy
  <2> QED BY <1>8, <2>1 DEF InstructionDone
<1>11. cpu'.busy <=> ~InstructionDone(s) BY <1>7, <1>10
<1>12. cpu'.halted <=> Type(ins'.op) = "Kil" BY <1>1, <1>2, <1>3, <1>5, <1>7
<1>13. InstructionInv' BY <1>9, <1>11, <1>12 DEF InstructionInv, s
<1>14. BusTypes' BY <1>3, <1>6, <1>7 DEF BusTypes, Cpus
<1>15. ins'.op # NoOpcode BY <1>3, <1>5, <1>6, ZeroByte
<1> QED BY <1>13, <1>14, <1>15 DEF BusInv

LEMMA CodeIs == ASSUME NEW a \in Code PROVE Low(a) \in Int /\ Page(a) \in Int /\ Low(a) + B * Page(a) \in Int
<1>1. a \in Int BY ProgramAssumption
<1>2. Low(a) \in Int /\ Page(a) \in Int BY <1>1, PageIs
<1> QED BY <1>2, WordIs

LEMMA InterruptKeeps ==
  ASSUME BusInv, NEW vector \in Int, NEW a \in Code, Interrupt(vector, Low(a), Page(a))
  PROVE  BusInv'
<1> DEFINE low == Low(a)
           high == Page(a)
           s0 == State
           s1 == Push(s0, Page(cpu.pc))
           s2 == Push(s1, Low(cpu.pc))
           s3 == Push(s2, Reg)
           io == s3.io \o <<Read(vector, low), Read(vector + 1, high)>>
<1>1. cpu \in Cpus /\ ins \in Ins BY DEF BusInv, BusTypes, Cpus
<1>2. s0 \in Moment BY <1>1, StateIs
<1>3. low \in Int /\ high \in Int /\ low + B * high \in Int BY CodeIs
<1>4. /\ ~cpu.busy \/ cpu.halted
      /\ cpu' = [cpu EXCEPT !.pc = low + B * high, !.sp = s3.sp]
      /\ ins' = Decoded(NoOpcode, 0, 0) /\ trace' = <<io>>
  BY DEF Interrupt
<1>5. Page(cpu.pc) \in Int /\ Low(cpu.pc) \in Int /\ Reg \in Int
  <2>1. cpu.pc \in Int BY <1>1 DEF Cpus
  <2> QED BY <2>1, PageIs DEF Reg
<1> HIDE DEF s0
<1>6. s1 \in Moment BY <1>2, <1>5, PushActs DEF Acted
<1> HIDE DEF s1
<1>7. s2 \in Moment BY <1>5, <1>6, PushActs DEF Acted
<1> HIDE DEF s2
<1>8. s3 \in Moment /\ s3.sp = Down(s2.sp) BY <1>5, <1>7, PushActs DEF Acted
<1> HIDE DEF s3, low, high
<1>9. s3.sp \in Byte
  <2>1. s2.sp \in Int BY <1>7 DEF Moment
  <2> QED BY <1>8, <2>1, Steps
<1>10. io \in Seq(Bus)
  <2>1. Read(vector, low) \in Bus /\ Read(vector + 1, high) \in Bus BY <1>3, ReadIs
  <2>2. s3.io \in Seq(Bus) BY <1>8 DEF Moment
  <2>3. <<Read(vector, low), Read(vector + 1, high)>> \in Seq(Bus) BY <2>1
  <2> QED BY <2>2, <2>3
<1> HIDE DEF io
<1>11. trace' \in Seq(Seq(Bus)) BY <1>4, <1>10
<1>12. cpu' \in Cpus /\ (~cpu'.busy \/ cpu'.halted)
  <2> DEFINE n == low + B * high
  <2>1. n \in Int /\ cpu' = [cpu EXCEPT !.pc = n, !.sp = s3.sp] BY <1>3, <1>4
  <2> HIDE DEF n
  <2> QED BY <1>1, <1>4, <1>9, <2>1 DEF Cpus
<1> QED BY <1>1, <1>4, <1>11, <1>12, IdleKeeps

LEMMA ResetKeeps == ASSUME BusInv, NEW a \in Code, ResetCpu(Low(a), Page(a)) PROVE BusInv'
<1> DEFINE sp1 == Down(cpu.sp)
           sp2 == Down(sp1)
           io == <<Peek(Stack(cpu.sp)), Peek(Stack(sp1)), Peek(Stack(sp2)),
                   Read(ResetVector, Low(a)), Read(ResetVector + 1, Page(a))>>
<1>1. cpu \in Cpus /\ cpu.sp \in Int BY ByteIs DEF BusInv, BusTypes, Cpus
<1>2. cpu' = [pc |-> Low(a) + B * Page(a), sp |-> Down(sp2), halted |-> FALSE, busy |-> FALSE]
      /\ ins' = Decoded(NoOpcode, 0, 0) /\ trace' = <<io>>
  BY DEF ResetCpu
<1>3. sp1 \in Int BY <1>1, Steps, ByteIs
<1>4. sp2 \in Int
  <2> HIDE DEF sp1
  <2> QED BY <1>3, Steps, ByteIs
<1>5. Down(sp2) \in Byte
  <2> HIDE DEF sp2
  <2> QED BY <1>4, Steps
<1> HIDE DEF sp1, sp2
<1>6. io \in Seq(Bus)
  <2>1. \A k \in Int : Peek(Stack(k)) \in Bus BY StackReads
  <2>2. Low(a) \in Int /\ Page(a) \in Int /\ ResetVector \in Int BY CodeIs, BytesAre DEF ResetVector
  <2>3. Read(ResetVector, Low(a)) \in Bus /\ Read(ResetVector + 1, Page(a)) \in Bus BY <2>2, ReadIs
  <2> QED BY <1>1, <1>3, <1>4, <2>1, <2>3
<1> HIDE DEF io
<1>7. trace' \in Seq(Seq(Bus)) BY <1>2, <1>6
<1>8. cpu' \in Cpus /\ ~cpu'.busy BY <1>2, <1>5, CodeIs DEF Cpus
<1> QED BY <1>1, <1>2, <1>7, <1>8, IdleKeeps

LEMMA BusUnchanged == ASSUME BusInv, UNCHANGED busVars PROVE BusInv'
<1>1. cpu' = cpu /\ ins' = ins /\ trace' = trace BY DEF busVars
<1>2. State' = State BY <1>1 DEF State
<1>3. BusTypes' BY <1>1 DEF BusInv, BusTypes
<1>4. InstructionInv => InstructionInv' BY <1>1, <1>2 DEF InstructionInv
<1> QED BY <1>1, <1>3, <1>4 DEF BusInv

\* After every cycle of Cpu2 the instruction is as far as the number of its cycles says, and its
\* target, pc and sp are what the bytes read in those cycles make of them.
THEOREM BusInvariant == BusSpec => []BusInv
<1>1. BusInv /\ [BusNext]_busVars => BusInv'
  <2> SUFFICES ASSUME BusInv, [BusNext]_busVars PROVE BusInv' OBVIOUS
  <2>1. ASSUME NEW a \in Code, Nmi(Low(a), Page(a)) PROVE BusInv'
    <3>1. NmiVector \in Int BY BytesAre DEF NmiVector
    <3> QED BY <2>1, <3>1, InterruptKeeps DEF Nmi
  <2>2. ASSUME NEW a \in Code, Irq(Low(a), Page(a)) PROVE BusInv'
    <3>1. IrqVector \in Int BY BytesAre DEF IrqVector
    <3> QED BY <2>2, <3>1, InterruptKeeps DEF Irq
  <2> QED BY <2>1, <2>2, FetchKeeps, BusTickKeeps, ResetKeeps, BusUnchanged DEF BusNext
<1> QED BY <1>1, BusStarts, PTL DEF BusSpec

(***************************************************************************)
(* What the first CPU does with an instruction.                            *)
(***************************************************************************)
LEMMA DoesIs ==
  ASSUME NEW in, NEW n, NEW io
  PROVE  \E x : Does(in, n, io) = [io |-> x, pc |-> Plus(in.pc, n + 1), sp |-> in.sp, extra |-> 0]
BY DEF Does

LEMMA NothingCrosses == ASSUME NEW in, ModeOf(in) \notin Carried PROVE ~Crosses(in)
BY DEF Crosses, Carries, Carried

\* An arm that goes on behind its operand.
Follows(r, in, sp, extra) ==
  r.pc = Plus(in.pc, OperandBytes(in) + 1) /\ r.sp = sp /\ r.extra = extra

LEMMA SkippingIs == ASSUME NEW in PROVE Follows(Skipping(in), in, in.sp, 0)
<1>1. PICK x : Skipping(in) = [io |-> x, pc |-> Plus(in.pc, OperandBytes(in) + 1), sp |-> in.sp, extra |-> 0]
  BY DoesIs DEF Skipping
<1> QED BY <1>1 DEF Follows

LEMMA ReadingIs ==
  ASSUME NEW in
  PROVE  Follows(Reading(in), in, IF Mnemonic(in) = "LAR" THEN BitAnd(in.sp, in.mask) ELSE in.sp,
                 IF Crosses(in) THEN 1 ELSE 0)
<1> DEFINE target == IF Crosses(in) THEN <<Wrong(in), Peek(Target(in))>> ELSE <<Peek(Target(in))>>
           io == IF ModeOf(in) = "imm" THEN <<>> ELSE Via(in) \o target
           d == Does(in, OperandBytes(in), io)
           e == IF Crosses(in) THEN 1 ELSE 0
<1>1. Reading(in) = [d EXCEPT !.extra = e, !.sp = IF Mnemonic(in) = "LAR" THEN BitAnd(@, in.mask) ELSE @]
  BY DEF Reading
<1>2. PICK x : d = [io |-> x, pc |-> Plus(in.pc, OperandBytes(in) + 1), sp |-> in.sp, extra |-> 0]
  <2> HIDE DEF io
  <2> QED BY DoesIs
<1> HIDE DEF d, e
<1>3. Follows(Reading(in), in, IF Mnemonic(in) = "LAR" THEN BitAnd(in.sp, in.mask) ELSE in.sp, e)
  BY <1>1, <1>2 DEF Follows
<1> QED BY <1>3 DEF e

LEMMA ModifyingIs == ASSUME NEW in PROVE Follows(Modifying(in), in, in.sp, 0)
<1> DEFINE a == Target(in)
           io == IF ModeOf(in) = "acc" THEN <<>>
                 ELSE Via(in) \o Early(in) \o <<Peek(a), Write(a, Old), Write(a, New)>>
<1>1. Modifying(in) = Does(in, OperandBytes(in), io) BY DEF Modifying
<1> HIDE DEF io
<1>2. PICK x : Modifying(in) = [io |-> x, pc |-> Plus(in.pc, OperandBytes(in) + 1), sp |-> in.sp, extra |-> 0]
  BY <1>1, DoesIs
<1> QED BY <1>2 DEF Follows

LEMMA StoringIs == ASSUME NEW in PROVE Follows(Storing(in), in, in.sp, 0)
<1> DEFINE io == Via(in) \o Early(in) \o <<Write(Target(in), Reg)>>
<1>1. Storing(in) = Does(in, OperandBytes(in), io) BY DEF Storing
<1> HIDE DEF io
<1>2. PICK x : Storing(in) = [io |-> x, pc |-> Plus(in.pc, OperandBytes(in) + 1), sp |-> in.sp, extra |-> 0]
  BY <1>1, DoesIs
<1> QED BY <1>2 DEF Follows

LEMMA MaskingIs ==
  ASSUME NEW in
  PROVE  Follows(Masking(in), in, IF Mnemonic(in) = "XAS" THEN in.mask ELSE in.sp, 0)
<1> DEFINE page == IF Mnemonic(in) = "AXA" THEN Page(Target(in)) ELSE Page(BaseOf(in))
           a == IF Crosses(in) /\ Mnemonic(in) \in {"SXA", "SYA"}
                THEN B * BitAnd(Page(Target(in)), in.mask) + Low(Target(in)) ELSE Target(in)
           io == Via(in) \o Early(in) \o <<Write(a, BitAnd(in.mask, (page + 1) % B))>>
           d == Does(in, OperandBytes(in), io)
<1>1. Masking(in) = [d EXCEPT !.sp = IF Mnemonic(in) = "XAS" THEN in.mask ELSE @] BY DEF Masking
<1>2. PICK x : d = [io |-> x, pc |-> Plus(in.pc, OperandBytes(in) + 1), sp |-> in.sp, extra |-> 0]
  <2> HIDE DEF io
  <2> QED BY DoesIs
<1> HIDE DEF d
<1> QED BY <1>1, <1>2 DEF Follows

LEMMA RegisteringIs ==
  ASSUME NEW in
  PROVE  LET r == Registering(in)
         IN  r.pc = Plus(in.pc, 1) /\ r.extra = 0
             /\ r.sp = IF Mnemonic(in) = "TXS" THEN in.mask ELSE in.sp
<1>1. PICK x : Does(in, 0, <<>>) = [io |-> x, pc |-> Plus(in.pc, 1), sp |-> in.sp, extra |-> 0]
  <2>1. 0 + 1 = 1 OBVIOUS
  <2> QED BY <2>1, DoesIs
<1> QED BY <1>1 DEF Registering

LEMMA JumpingIs ==
  ASSUME NEW in
  PROVE  LET r == Jumping(in)
         IN  r.extra = 0 /\ r.sp = in.sp
             /\ r.pc = IF ModeOf(in) = "abs" THEN FromBytes(in.o) ELSE FromBytes(in.p)
<1> DEFINE io == Indirect(FromBytes(in.o))
<1>1. PICK x : Does(in, 2, <<>>) = [io |-> x, pc |-> Plus(in.pc, 2 + 1), sp |-> in.sp, extra |-> 0]
  BY DoesIs
<1>2. PICK y : Does(in, 2, io) = [io |-> y, pc |-> Plus(in.pc, 2 + 1), sp |-> in.sp, extra |-> 0]
  <2> HIDE DEF io
  <2> QED BY DoesIs
<1>3. CASE ModeOf(in) = "abs"
  <2>1. Jumping(in) = [Does(in, 2, <<>>) EXCEPT !.pc = FromBytes(in.o)] BY <1>3 DEF Jumping
  <2> QED BY <1>1, <1>3, <2>1
<1>4. CASE ModeOf(in) # "abs"
  <2>1. Jumping(in) = [Does(in, 2, io) EXCEPT !.pc = FromBytes(in.p)] BY <1>4 DEF Jumping
  <2> HIDE DEF io
  <2> QED BY <1>2, <1>4, <2>1
<1> QED BY <1>3, <1>4

\* An arm that moves the stack by n.
Stacks(r, pc0, sp0) == r.pc = pc0 /\ r.sp = sp0 /\ r.extra = 0

LEMMA CallingIs == ASSUME NEW in PROVE Stacks(Calling(in), FromBytes(in.o), (in.sp + B - 2) % B)
<1> DEFINE io == PushWord(in.sp, Plus(in.pc, 2))
<1>1. Calling(in) = [Does(in, 2, io) EXCEPT !.pc = FromBytes(in.o), !.sp = (@ + B - 2) % B] BY DEF Calling
<1> HIDE DEF io
<1>2. PICK x : Does(in, 2, io) = [io |-> x, pc |-> Plus(in.pc, 2 + 1), sp |-> in.sp, extra |-> 0] BY DoesIs
<1> QED BY <1>1, <1>2 DEF Stacks

LEMMA RtsFirst == ASSUME NEW in PROVE Stacks(Rts(in), Plus(FromBytes(in.p), 1), (in.sp + 2) % B)
<1> DEFINE io == <<Peek(Plus(in.pc, 1)), Peek(Stack(in.sp + 1)), Peek(Stack(in.sp + 2))>>
<1>1. Rts(in) = [Does(in, 0, io) EXCEPT !.pc = Plus(FromBytes(in.p), 1), !.sp = (@ + 2) % B] BY DEF Rts
<1> HIDE DEF io
<1>2. PICK x : Does(in, 0, io) = [io |-> x, pc |-> Plus(in.pc, 0 + 1), sp |-> in.sp, extra |-> 0] BY DoesIs
<1> QED BY <1>1, <1>2 DEF Stacks

LEMMA RtiFirst == ASSUME NEW in PROVE Stacks(Rti(in), FromBytes(in.p), (in.sp + 3) % B)
<1> DEFINE io == <<Peek(Plus(in.pc, 1)), Peek(Stack(in.sp + 1)), Peek(Stack(in.sp + 2)),
                   Peek(Stack(in.sp + 3))>>
<1>1. Rti(in) = [Does(in, 0, io) EXCEPT !.pc = FromBytes(in.p), !.sp = (@ + 3) % B] BY DEF Rti
<1> HIDE DEF io
<1>2. PICK x : Does(in, 0, io) = [io |-> x, pc |-> Plus(in.pc, 0 + 1), sp |-> in.sp, extra |-> 0] BY DoesIs
<1> QED BY <1>1, <1>2 DEF Stacks

LEMMA BrkFirst == ASSUME NEW in PROVE Stacks(Brk(in), FromBytes(in.p), (in.sp + B - 3) % B)
<1> DEFINE io == <<Peek(Plus(in.pc, 1))>> \o PushWord(in.sp, Plus(in.pc, 2))
                 \o <<Write(Stack(in.sp - 2), Reg), Peek(Vector(in)), Peek(Vector(in) + 1)>>
<1>1. Brk(in) = [Does(in, 1, io) EXCEPT !.pc = FromBytes(in.p), !.sp = (@ + B - 3) % B] BY DEF Brk
<1> HIDE DEF io
<1>2. PICK x : Does(in, 1, io) = [io |-> x, pc |-> Plus(in.pc, 1 + 1), sp |-> in.sp, extra |-> 0] BY DoesIs
<1> QED BY <1>1, <1>2 DEF Stacks

LEMMA PushingIs == ASSUME NEW in PROVE Stacks(Pushing(in), Plus(in.pc, 1), (in.sp + B - 1) % B)
<1> DEFINE io == <<Write(Stack(in.sp), Reg)>>
<1>1. Pushing(in) = [Does(in, 0, io) EXCEPT !.sp = (@ + B - 1) % B] BY DEF Pushing
<1> HIDE DEF io
<1>2. PICK x : Does(in, 0, io) = [io |-> x, pc |-> Plus(in.pc, 1), sp |-> in.sp, extra |-> 0]
  <2>1. 0 + 1 = 1 OBVIOUS
  <2> QED BY <2>1, DoesIs
<1> QED BY <1>1, <1>2 DEF Stacks

LEMMA PullingIs == ASSUME NEW in PROVE Stacks(Pulling(in), Plus(in.pc, 1), (in.sp + 1) % B)
<1> DEFINE io == <<Peek(Stack(in.sp + 1))>>
<1>1. Pulling(in) = [Does(in, 0, io) EXCEPT !.sp = (@ + 1) % B] BY DEF Pulling
<1> HIDE DEF io
<1>2. PICK x : Does(in, 0, io) = [io |-> x, pc |-> Plus(in.pc, 1), sp |-> in.sp, extra |-> 0]
  <2>1. 0 + 1 = 1 OBVIOUS
  <2> QED BY <2>1, DoesIs
<1> QED BY <1>1, <1>2 DEF Stacks

LEMMA BranchingIs ==
  ASSUME NEW in
  PROVE  LET r == Branching(in)
             next == Plus(in.pc, 2)
             to == Plus(next, B * B + Signed(in.o[1]))
         IN  r.sp = in.sp /\ IF in.taken THEN r.pc = to /\ r.extra = IF Page(to) = Page(next) THEN 1 ELSE 2
                             ELSE r.pc = next /\ r.extra = 0
<1> DEFINE next == Plus(in.pc, 2)
           to == Plus(next, B * B + Signed(in.o[1]))
           e == IF Page(to) = Page(next) THEN 1 ELSE 2
<1>1. PICK x : Does(in, 1, <<>>) = [io |-> x, pc |-> next, sp |-> in.sp, extra |-> 0]
  <2>1. 1 + 1 = 2 OBVIOUS
  <2> QED BY <2>1, DoesIs
<1>2. Branching(in) = IF ~in.taken THEN Does(in, 1, <<>>)
                      ELSE [Does(in, 1, <<>>) EXCEPT !.pc = to, !.extra = e]
  BY DEF Branching
<1> HIDE DEF next, to, e
<1>3. Branching(in).sp = in.sp /\ IF in.taken THEN Branching(in).pc = to /\ Branching(in).extra = e
                                  ELSE Branching(in).pc = next /\ Branching(in).extra = 0
  BY <1>1, <1>2
<1> QED BY <1>3 DEF e, to, next

-----------------------------------------------------------------------------
\* Which arm runs.
LEMMA RunIs ==
  ASSUME NEW in
  PROVE  LET m == Mnemonic(in)
             r == RunOpcode(in)
         IN  /\ m \in ReadMnemonics => r \in {Reading(in), Skipping(in)}
             /\ m \in ReadMnemonics /\ r # Reading(in) => m = "TOP" /\ ModeOf(in) = "abs"
             /\ m \in ModifyMnemonics => r = Modifying(in)
             /\ m \in {"STA", "STX", "STY", "SAX"} => r = Storing(in)
             /\ m \in {"SXA", "SYA", "AXA", "XAS"} => r = Masking(in)
             /\ m = "DOP" => r = Skipping(in)
             /\ m \in RegisterMnemonics => r = Registering(in)
             /\ m \in BranchMnemonics => r = Branching(in)
             /\ m = "JMP" => r = Jumping(in)
             /\ m = "JSR" => r = Calling(in)
             /\ m = "RTS" => r = Rts(in)
             /\ m = "RTI" => r = Rti(in)
             /\ m = "BRK" => r = Brk(in)
             /\ m \in {"PHA", "PHP"} => r = Pushing(in)
             /\ m \in {"PLA", "PLP"} => r = Pulling(in)
<1> DEFINE m == Mnemonic(in)
<1>1. /\ Kind(in, "read") <=> m \in ReadMnemonics
      /\ Kind(in, "modify") <=> m \in ModifyMnemonics
      /\ Kind(in, "branch") <=> m \in BranchMnemonics
      /\ Kind(in, "store") <=> m \in {"STA", "STX", "STY", "SAX"}
      /\ Kind(in, "unstable") <=> m \in {"SXA", "SYA", "AXA", "XAS"}
      /\ Kind(in, "skip") <=> m = "DOP"
      /\ Kind(in, "halt") <=> m = "KIL"
      /\ Kind(in, "jump") <=> m = "JMP"
      /\ Kind(in, "call") <=> m = "JSR"
      /\ Kind(in, "rts") <=> m = "RTS"
      /\ Kind(in, "rti") <=> m = "RTI"
      /\ Kind(in, "brk") <=> m = "BRK"
      /\ Kind(in, "push") <=> m \in {"PHA", "PHP"}
      /\ Kind(in, "pull") <=> m \in {"PLA", "PLP"}
      /\ Kind(in, "register") <=> m \in RegisterMnemonics
  BY KindsAre DEF Kind
<1> HIDE DEF m
<1>2. /\ m \in ReadMnemonics => m \notin ModifyMnemonics
      /\ m \in ModifyMnemonics \cup BranchMnemonics \cup RegisterMnemonics => m \notin ReadMnemonics
      /\ m \in BranchMnemonics \cup RegisterMnemonics => m \notin ModifyMnemonics
  BY DEF ReadMnemonics, ModifyMnemonics, BranchMnemonics, RegisterMnemonics
<1> QED BY <1>1, <1>2 DEF RunOpcode, ReadMnemonics, ModifyMnemonics, BranchMnemonics, RegisterMnemonics, m

(***************************************************************************)
(* An instruction that has run.                                            *)
(***************************************************************************)
Carry(i) == Mode(i.op) \in Carried /\ Access(i.op) = "R" /\ i.crossed

LEMMA FinishedIs ==
  ASSUME NEW s, NEW t, Running(s, t), InstructionDone(s)
  PROVE  /\ s.i.op \in 0..255 /\ Type(s.i.op) # "Kil" /\ s.i.ic = TypeCycles(s.i) /\ s.i.ac = ModeCycles(s.i)
         /\ Located(s.i, s.i.ac, t) /\ Effect(s.i, s.pc, s.sp, t)
         /\ Len(t) = IF s.i.ac > 0 THEN s.i.ac + s.i.ic ELSE 1 + s.i.ic
<1>1. s.i.ac \in Nat /\ s.i.ic \in Nat /\ s.i.op \in 0..255 /\ ModeDone(s) /\ TypeDone(s.i)
  BY RunningIs DEF Running, InstructionDone
<1>2. Type(s.i.op) # "Kil" BY <1>1 DEF TypeDone, KilDone, Branches, Modifies, Rotates
<1>3. s.i.ic = TypeCycles(s.i) BY <1>1, <1>2, TypeDoneIs
<1>4. s.i.ic > 0 BY <1>3 DEF TypeCycles, TypeLength
<1>5. s.i.ac \in 0 .. ModeCycles(s.i) /\ Located(s.i, s.i.ac, t) BY DEF Running, InMode
<1>6. s.i.ac = ModeCycles(s.i)
  <2>1. Mode(s.i.op) \in Modes BY <1>1, OpIs
  <2> QED BY <1>1, <1>5, <2>1, ModeDoneIs DEF Modes, ModeCycles, AbsoluteDone, IndexedDone
<1>7. Effect(s.i, s.pc, s.sp, t) BY <1>4 DEF Running, Started
<1>8. Len(t) = IF s.i.ac > 0 THEN s.i.ac + s.i.ic ELSE 1 + s.i.ic
  <2>1. Len(t) = Elapsed(s.i) BY DEF Running
  <2> QED BY <1>1, <1>4, <2>1 DEF Elapsed
<1> QED BY <1>1, <1>2, <1>3, <1>5, <1>6, <1>7, <1>8

\* The ticks of a mode are those it takes without crossing a page, and one for the carry.
LEMMA ModeCyclesAre ==
  ASSUME NEW i, Mode(i.op) \in Modes
  PROVE  (IF ModeCycles(i) > 0 THEN ModeCycles(i) ELSE 1)
           = ModeLength(Decode[i.op]) + (IF Carry(i) THEN 1 ELSE 0)
BY DEF Modes, ModeCycles, ModeLength, Carry, Carried, Mode, Access

LEMMA TypeLengthIs == \A ty : TypeLength(ty) \in Nat /\ TypeLength(ty) >= 1
BY DEF TypeLength
LEMMA ModeCyclesNat == \A i : ModeCycles(i) \in Nat
BY DEF ModeCycles
LEMMA ModeLengthIs == \A d : ModeLength(d) \in Nat /\ ModeLength(d) >= 1
BY DEF ModeLength

\* Every instruction but a branch takes the cycles of the table, and one for the carry of a read.
LEMMA CyclesAre ==
  ASSUME NEW s, NEW t, Running(s, t), InstructionDone(s), Type(s.i.op) \notin Branches
  PROVE  Len(t) = BaseCycles[s.i.op] + (IF Carry(s.i) THEN 1 ELSE 0) /\ BaseCycles[s.i.op] \in Nat
         /\ BaseCycles[s.i.op] >= 2
<1> DEFINE i == s.i
           ty == TypeLength(Type(i.op))
           more == IF Carry(i) THEN 1 ELSE 0
           mode == ModeLength(Decode[i.op])
<1>1. /\ i.op \in 0..255 /\ i.ic = TypeCycles(i) /\ i.ac = ModeCycles(i)
      /\ Len(t) = IF i.ac > 0 THEN i.ac + i.ic ELSE 1 + i.ic
  BY FinishedIs
<1>2. i.ic = ty BY <1>1 DEF TypeCycles
<1>3. ty \in Nat /\ i.ac \in Nat /\ mode \in Nat /\ more \in Nat /\ ty >= 1 /\ mode >= 1
  BY <1>1, TypeLengthIs, ModeCyclesNat, ModeLengthIs
<1>4. (IF i.ac > 0 THEN i.ac ELSE 1) = mode + more
  <2>1. Mode(i.op) \in Modes BY <1>1, OpIs
  <2>2. (IF ModeCycles(i) > 0 THEN ModeCycles(i) ELSE 1) = mode + more
    <3> HIDE DEF i
    <3> QED BY <2>1, ModeCyclesAre DEF mode, more
  <2>3. i.ac = ModeCycles(i) BY <1>1
  <2> HIDE DEF i, more, mode
  <2> QED BY <2>2, <2>3
<1>5. BaseCycles[i.op] = mode + ty BY <1>1, OpcodeAgrees, Zenon DEF Type
<1> HIDE DEF i, ty, more, mode
<1>6. Len(t) = (mode + more) + ty BY <1>1, <1>2, <1>3, <1>4
<1>7. Len(t) = BaseCycles[i.op] + more /\ BaseCycles[i.op] \in Nat /\ BaseCycles[i.op] >= 2
  BY <1>3, <1>5, <1>6
<1> QED BY <1>7 DEF i, more

-----------------------------------------------------------------------------
(* What the instruction found, as the first CPU is given it. *)

LEMMA ModeOfIs ==
  ASSUME ins.op \in 0..255
  PROVE  /\ Given.op = ins.op /\ Mnemonic(Given) = Arm[ins.op][1] /\ ModeOf(Given) = Arm[ins.op][2]
         /\ SameMode(Decode[ins.op], Arm[ins.op]) /\ SameType(Decode[ins.op], Arm[ins.op])
         /\ Fits(Decode[ins.op])
<1>1. Given.op = ins.op BY DEF Given
<1>2. Mnemonic(Given) = Arm[ins.op][1] /\ ModeOf(Given) = Arm[ins.op][2] BY <1>1 DEF Mnemonic, ModeOf
<1> QED BY <1>1, <1>2, OpcodeAgrees, Zenon

LEMMA CarriedIs ==
  ASSUME ins.op \in 0..255
  PROVE  /\ ModeOf(Given) \in Carried <=> Mode(ins.op) \in Carried
         /\ ModeOf(Given) \in Carried => ModeOf(Given) = Mode(ins.op)
BY ModeOfIs DEF SameMode, Fits, Implied, Carried, Mode, Type

LEMMA FromTwo == \A a, b : FromBytes(<<a, b>>) = a + B * b
BY DEF FromBytes

\* The first CPU crosses a page where the new one does.
LEMMA CrossesIs ==
  ASSUME ins.op \in 0..255, Mode(ins.op) \in Carried, Located(ins, ins.ac, trace), ins.ac \in Nat,
         ins.ac >= IF Mode(ins.op) = "indy" THEN 4 ELSE 2
  PROVE  Crosses(Given) <=> ins.crossed
<1> DEFINE first == IF Mode(ins.op) = "indy" THEN 3 ELSE 2
<1>1. /\ ins.base = WordIn(trace, first) /\ ins.crossed = Crossing(ins.base, ins.index)
  BY DEF Located, Carried
<1>2. Type(ins.op) \notin {"Jsr", "Rts", "Rti", "Brk"} BY OpIs DEF Implied, Carried
<1>3. BaseOf(Given) = WordIn(trace, first)
  <2>1. CASE Mode(ins.op) = "indy"
    <3>1. PointerRead = <<ByteRead(3), ByteRead(4)>> BY <1>2, <2>1 DEF PointerRead
    <3>2. ModeOf(Given) = "indy" BY <2>1, CarriedIs DEF Carried
    <3>3. BaseOf(Given) = FromBytes(Given.p) BY <3>2 DEF BaseOf, ZeroPaged
    <3>4. Given.p = PointerRead BY DEF Given
    <3>5. BaseOf(Given) = ByteRead(3) + B * ByteRead(4) BY <3>1, <3>3, <3>4, FromTwo
    <3> QED BY <2>1, <3>5 DEF ByteRead, WordIn, ReadIn
  <2>2. CASE Mode(ins.op) \in {"absx", "absy"}
    <3>1. Bytes(ins.op) = 3 BY <1>2, <2>2 DEF Bytes
    <3>2. OperandRead = <<ByteRead(2), ByteRead(3)>> BY <1>2, <3>1 DEF OperandRead
    <3>3. ModeOf(Given) \in {"absx", "absy"} BY <2>2, CarriedIs DEF Carried
    <3>4. BaseOf(Given) = FromBytes(Given.o) BY <3>3 DEF BaseOf, ZeroPaged
    <3>5. Given.o = OperandRead BY DEF Given
    <3>6. BaseOf(Given) = ByteRead(2) + B * ByteRead(3) BY <3>2, <3>4, <3>5, FromTwo
    <3> QED BY <2>2, <3>6 DEF ByteRead, WordIn, ReadIn
  <2> QED BY <2>1, <2>2 DEF Carried
<1>4. ModeOf(Given) \in Carried BY CarriedIs
<1>5. Carries(Given) BY <1>4 DEF Carries, Carried
<1>6. Target(Given) = Plus(BaseOf(Given), Given.index) BY <1>4, <1>5 DEF Target, Carried
<1>7. Given.index = ins.index BY DEF Given
<1> QED BY <1>1, <1>3, <1>5, <1>6, <1>7 DEF Crosses, Crossing

-----------------------------------------------------------------------------
(* Cycles *)

LEMMA Filled == ASSUME NEW io, NEW n \in Nat PROVE Len(<<io>> \o [c \in 1 .. n |-> <<>>]) = n + 1
<1> DEFINE S == {io, <<>>}
           rest == [c \in 1 .. n |-> <<>>]
<1>1. <<io>> \in Seq(S) /\ Len(<<io>>) = 1 OBVIOUS
<1>2. rest \in Seq(S) /\ Len(rest) = n OBVIOUS
<1> HIDE DEF S, rest
<1>3. Len(<<io>> \o rest) = Len(<<io>>) + Len(rest) BY <1>1, <1>2
<1> QED BY <1>1, <1>2, <1>3 DEF rest

LEMMA Filled2 == ASSUME NEW x, NEW y, NEW n \in Nat PROVE Len(<<x, y>> \o [c \in 1 .. n |-> <<>>]) = n + 2
<1> DEFINE S == {x, y, <<>>}
           rest == [c \in 1 .. n |-> <<>>]
<1>1. <<x, y>> \in Seq(S) /\ Len(<<x, y>>) = 2 OBVIOUS
<1>2. rest \in Seq(S) /\ Len(rest) = n OBVIOUS
<1> HIDE DEF S, rest
<1>3. Len(<<x, y>> \o rest) = Len(<<x, y>>) + Len(rest) BY <1>1, <1>2
<1> QED BY <1>1, <1>2, <1>3 DEF rest

LEMMA GivenIs ==
  /\ Given.pc = ins.from /\ Given.sp = ins.sp /\ Given.index = ins.index /\ Given.mask = ins.mask
  /\ Given.o = OperandRead /\ Given.p = PointerRead /\ Given.taken = ins.taken
BY DEF Given

\* The arms of the first CPU by the types of the new one.
LEMMA ArmIs ==
  ASSUME ins.op \in 0..255, Type(ins.op) # "Kil"
  PROVE  LET m == Mnemonic(Given)
             ty == Type(ins.op)
         IN  \/ m \in ReadMnemonics /\ Mode(ins.op) # "imp" /\ ty \notin Writers \cup Branches \cup {"Jmp", "Dop"}
             \/ m \in ModifyMnemonics /\ ty \in Modifies \cup Accumulators
             \/ m \in {"STA", "STX", "STY", "SAX"} /\ ty \in Stores
             \/ m \in {"SXA", "SYA", "AXA", "XAS"} /\ ty \in UnstableStores
             \/ m \in RegisterMnemonics /\ Mode(ins.op) = "imp" /\ ty \notin Implied \ {"Txs"}
             \/ m \in BranchMnemonics /\ ty \in Branches
             \/ m = "DOP" /\ ty = "Dop"
             \/ m = "JMP" /\ ty = "Jmp"
             \/ m = "JSR" /\ ty = "Jsr"
             \/ m = "RTS" /\ ty = "Rts"
             \/ m = "RTI" /\ ty = "Rti"
             \/ m = "BRK" /\ ty = "Brk"
             \/ m \in {"PHA", "PHP"} /\ ty \in Pushes
             \/ m \in {"PLA", "PLP"} /\ ty \in Pulls
<1> DEFINE m == Mnemonic(Given)
           d == Decode[ins.op]
           a == Arm[ins.op]
           x == d[1]
           z == d[2]
<1>1. m = a[1] /\ SameType(d, a) BY ModeOfIs
<1>2. Type(ins.op) = x /\ Mode(ins.op) = z BY DEF Type, Mode
<1> HIDE DEF m, d, a
<1>3. \/ m \in ReadMnemonics /\ z # "imp" /\ x \notin Writers \cup Branches \cup {"Jmp", "Dop"}
      \/ m \in ModifyMnemonics /\ x \in Modifies \cup Accumulators
      \/ m \in {"STA", "STX", "STY", "SAX"} /\ x \in Stores
      \/ m \in {"SXA", "SYA", "AXA", "XAS"} /\ x \in UnstableStores
      \/ m \in RegisterMnemonics /\ z = "imp" /\ x \notin Implied \ {"Txs"}
      \/ m \in BranchMnemonics /\ x \in Branches
      \/ m = "DOP" /\ x = "Dop"
      \/ m = "JMP" /\ x = "Jmp"
      \/ m = "JSR" /\ x = "Jsr"
      \/ m = "RTS" /\ x = "Rts"
      \/ m = "RTI" /\ x = "Rti"
      \/ m = "BRK" /\ x = "Brk"
      \/ m \in {"PHA", "PHP"} /\ x \in Pushes
      \/ m \in {"PLA", "PLP"} /\ x \in Pulls
  <2>1. /\ m \in ReadMnemonics <=> (z # "imp" /\ x \notin Writers \cup Branches \cup {"Jmp", "Dop"})
        /\ m \in ModifyMnemonics <=> x \in Modifies \cup Accumulators
        /\ m \in {"STA", "STX", "STY", "SAX"} <=> x \in Stores
        /\ m \in {"SXA", "SYA", "AXA", "XAS"} <=> x \in UnstableStores
        /\ m \in RegisterMnemonics <=> (z = "imp" /\ x \notin Implied \ {"Txs"})
        /\ m \in BranchMnemonics <=> x \in Branches
        /\ m = "DOP" <=> x = "Dop"
        /\ m = "JMP" <=> x = "Jmp"
        /\ m = "JSR" <=> x = "Jsr"
        /\ m = "RTS" <=> x = "Rts"
        /\ m = "RTI" <=> x = "Rti"
        /\ m = "BRK" <=> x = "Brk"
        /\ m \in {"PHA", "PHP"} <=> x \in {"Pha", "Php"}
        /\ m \in {"PLA", "PLP"} <=> x \in {"Pla", "Plp"}
    BY <1>1 DEF SameType, x, z
  <2> HIDE DEF x, z
  <2>2. x # "Kil" BY <1>2
  <2>3. CASE z # "imp" BY <2>1, <2>3 DEF Writers, Pushes, Pulls
  <2>4. CASE z = "imp" BY <2>1, <2>2, <2>4 DEF Implied, Pushes, Pulls
  <2> QED BY <2>3, <2>4
<1> QED BY <1>2, <1>3 DEF m, x, z

LEMMA OperandBytesIs ==
  ASSUME ins.op \in 0..255, Mode(ins.op) # "rel", ins.ac = ModeCycles(ins)
  PROVE  OperandsRead(ins.op, ins.ac) = OperandBytes(Given)
<1>1. /\ Mode(ins.op) \in Modes
      /\ IF Type(ins.op) \in Accumulators THEN ModeOf(Given) = "acc" /\ Mode(ins.op) = "imp"
         ELSE ModeOf(Given) = Mode(ins.op)
  BY ModeOfIs, OpIs, Zenon DEF SameMode, Implied, Mode, Type
<1>2. ModeCycles(ins) \in Nat /\ (Mode(ins.op) # "imp" => ModeCycles(ins) >= 1)
      /\ (Mode(ins.op) \in {"abs", "absx", "absy", "ind"} => ModeCycles(ins) >= 2)
  BY <1>1 DEF ModeCycles, Modes
<1> DEFINE length == IF Mode(ins.op) = "imp" THEN 0
                     ELSE IF Mode(ins.op) \in {"abs", "absx", "absy", "ind"} THEN 2 ELSE 1
<1>3. OperandsRead(ins.op, ins.ac) = length
  <2>1. Mode(ins.op) = "imp" => ModeCycles(ins) = 0 BY DEF ModeCycles
  <2> DEFINE n == ModeCycles(ins)
  <2>2. ins.ac = n OBVIOUS
  <2> HIDE DEF n
  <2> QED BY <1>2, <2>1, <2>2 DEF OperandsRead, n
<1>4. OperandBytes(Given) = length
  <2> DEFINE m == Mode(ins.op)
             a == ModeOf(Given)
             long == {"abs", "absx", "absy", "ind"}
  <2>1. OperandBytes(Given) = IF a \in {"imp", "acc"} THEN 0 ELSE IF a \in long THEN 2 ELSE 1
    BY Zenon DEF OperandBytes
  <2>2. a \in {"imp", "acc"} <=> m = "imp" BY <1>1 DEF Modes
  <2>3. a \in long <=> m \in long BY <1>1
  <2> HIDE DEF m, a, long
  <2>4. OperandBytes(Given) = IF m = "imp" THEN 0 ELSE IF m \in long THEN 2 ELSE 1
    BY <2>1, <2>2, <2>3, Zenon
  <2> QED BY <2>4, Zenon DEF m, long
<1> HIDE DEF length
<1> QED BY <1>3, <1>4

\* What a type with no other control leaves, and a carry costs.
LEMMA RunFollows ==
  ASSUME ins.op \in 0..255, Plain(Type(ins.op)), Type(ins.op) # "Kil",
         Mode(ins.op) \in Carried => (Crosses(Given) <=> ins.crossed), ins.crossed \in BOOLEAN
  PROVE  Follows(RunOpcode(Given), Given,
                 IF Type(ins.op) \in {"Xas", "Txs"} THEN ins.mask
                 ELSE IF Type(ins.op) = "Lar" THEN BitAnd(ins.sp, ins.mask) ELSE ins.sp,
                 IF Carry(ins) THEN 1 ELSE 0)
<1> DEFINE m == Mnemonic(Given)
           ty == Type(ins.op)
           r == RunOpcode(Given)
           sp == IF ty \in {"Xas", "Txs"} THEN ins.mask
                 ELSE IF ty = "Lar" THEN BitAnd(ins.sp, ins.mask) ELSE ins.sp
           more == IF Carry(ins) THEN 1 ELSE 0
<1>1. (m = "LAR" <=> ty = "Lar") /\ (m = "TXS" <=> ty = "Txs") /\ (m = "XAS" <=> ty = "Xas")
  BY ModeOfIs DEF SameType, Type
<1>2. /\ ty \in Implied => Mode(ins.op) = "imp"
      /\ Mode(ins.op) \in Carried => (Access(ins.op) = "R" <=> ty \notin Writers)
      /\ ty = "Dop" => Mode(ins.op) \notin Carried
  BY ModeOfIs DEF Fits, Type, Mode, Access
<1>3. Crosses(Given) <=> Mode(ins.op) \in Carried /\ ins.crossed BY CarriedIs, NothingCrosses
<1>4. ASSUME m \in ReadMnemonics, Mode(ins.op) # "imp", ty \notin Writers \cup {"Dop"} PROVE Follows(r, Given, sp, more)
  <2>1. ty \notin {"Xas", "Txs"} BY <1>2, <1>4 DEF Writers, UnstableStores, Implied
  <2>2. (IF Crosses(Given) THEN 1 ELSE 0) = more BY <1>2, <1>3, <1>4 DEF Carry
  <2>3. (IF m = "LAR" THEN BitAnd(Given.sp, Given.mask) ELSE Given.sp) = sp BY <1>1, <2>1, GivenIs
  <2>4. CASE r = Reading(Given)
    <3>1. Follows(Reading(Given), Given, IF m = "LAR" THEN BitAnd(Given.sp, Given.mask) ELSE Given.sp,
                  IF Crosses(Given) THEN 1 ELSE 0) BY ReadingIs
    <3> HIDE DEF m, sp, more
    <3> QED BY <2>2, <2>3, <2>4, <3>1
  <2>5. CASE r # Reading(Given)
    <3>1. r = Skipping(Given) /\ m = "TOP" /\ ModeOf(Given) = "abs" BY <1>4, <2>5, RunIs
    <3>2. ~Crosses(Given) BY <3>1, NothingCrosses DEF Carried
    <3>3. sp = Given.sp /\ more = 0 BY <2>2, <2>3, <3>1, <3>2
    <3> HIDE DEF m, sp, more
    <3> QED BY <3>1, <3>3, SkippingIs
  <2> QED BY <2>4, <2>5
<1>5. ASSUME ty \in Writers \cup Accumulators \cup {"Dop"} PROVE more = 0
  <2>1. ty \in Accumulators => Mode(ins.op) \notin Carried BY <1>2 DEF Implied, Carried
  <2> QED BY <1>2, <1>5, <2>1 DEF Carry
<1>6. ASSUME m \in ModifyMnemonics, ty \in Modifies \cup Accumulators PROVE Follows(r, Given, sp, more)
  <2>1. r = Modifying(Given) BY <1>6, RunIs
  <2>2. more = 0 BY <1>5, <1>6 DEF Writers
  <2>3. sp = Given.sp BY <1>6, GivenIs DEF Modifies, Rotates, Accumulators
  <2> HIDE DEF m, sp, more, r
  <2> QED BY <2>1, <2>2, <2>3, ModifyingIs
<1>7. ASSUME m \in {"STA", "STX", "STY", "SAX"}, ty \in Stores PROVE Follows(r, Given, sp, more)
  <2>1. r = Storing(Given) BY <1>7, RunIs
  <2>2. more = 0 BY <1>5, <1>7 DEF Writers
  <2>3. sp = Given.sp BY <1>7, GivenIs DEF Stores
  <2> HIDE DEF m, sp, more, r
  <2> QED BY <2>1, <2>2, <2>3, StoringIs
<1>8. ASSUME m \in {"SXA", "SYA", "AXA", "XAS"}, ty \in UnstableStores PROVE Follows(r, Given, sp, more)
  <2>1. r = Masking(Given) BY <1>8, RunIs
  <2>2. more = 0 BY <1>5, <1>8 DEF Writers
  <2>3. sp = IF m = "XAS" THEN Given.mask ELSE Given.sp BY <1>1, <1>8, GivenIs DEF UnstableStores
  <2>4. Follows(Masking(Given), Given, IF m = "XAS" THEN Given.mask ELSE Given.sp, 0) BY MaskingIs
  <2> HIDE DEF m, sp, more, r
  <2> QED BY <2>1, <2>2, <2>3, <2>4
<1>9. ASSUME m \in RegisterMnemonics, Mode(ins.op) = "imp", ty \notin Implied \ {"Txs"}
      PROVE  Follows(r, Given, sp, more)
  <2>1. r = Registering(Given) BY <1>9, RunIs
  <2>2. more = 0 BY <1>9 DEF Carry, Carried
  <2>3. m \notin {"LAR", "XAS"} BY <1>9 DEF RegisterMnemonics
  <2>4. sp = IF m = "TXS" THEN Given.mask ELSE Given.sp BY <1>1, <2>3, GivenIs
  <2>5. OperandBytes(Given) + 1 = 1
    <3>1. ModeOf(Given) \in {"imp", "acc"} BY <1>9, ModeOfIs DEF SameMode, Mode, Type
    <3> QED BY <3>1 DEF OperandBytes
  <2>6. Registering(Given).pc = Plus(Given.pc, 1) /\ Registering(Given).extra = 0
        /\ Registering(Given).sp = IF m = "TXS" THEN Given.mask ELSE Given.sp
    BY RegisteringIs
  <2> HIDE DEF m, sp, more, r
  <2> QED BY <2>1, <2>2, <2>4, <2>5, <2>6 DEF Follows
<1>10. ASSUME m = "DOP", ty = "Dop" PROVE Follows(r, Given, sp, more)
  <2>1. r = Skipping(Given) BY <1>10, RunIs
  <2>2. more = 0 BY <1>5, <1>10
  <2>3. sp = Given.sp BY <1>10, GivenIs
  <2> HIDE DEF m, sp, more, r
  <2> QED BY <2>1, <2>2, <2>3, SkippingIs
<1>11. ty \notin Branches \cup Leaps \cup Pushes \cup Pulls BY DEF Plain
<1>12. Follows(r, Given, sp, more)
  BY <1>4, <1>6, <1>7, <1>8, <1>9, <1>10, <1>11, ArmIs DEF Leaps
<1> QED BY <1>12

LEMMA CompletedIs ==
  ASSUME BusInv, Completed
  PROVE  /\ Running(State, trace) /\ InstructionDone(State)
         /\ ins.op \in 0..255 /\ Type(ins.op) # "Kil" /\ ins \in Ins /\ ins.sp \in Byte
         /\ ins.ic = TypeCycles(ins) /\ ins.ac = ModeCycles(ins) /\ Located(ins, ins.ac, trace)
         /\ Effect(ins, cpu.pc, cpu.sp, trace)
         /\ Len(trace) = IF ins.ac > 0 THEN ins.ac + ins.ic ELSE 1 + ins.ic
<1>1. cpu \in Cpus /\ ins \in Ins /\ ins.sp \in Byte BY DEF BusInv, BusTypes, Cpus
<1>2. Running(State, trace) /\ InstructionDone(State) BY DEF BusInv, InstructionInv, Completed
<1>3. State.i = ins /\ State.pc = cpu.pc /\ State.sp = cpu.sp BY <1>1, StateIs
<1> DEFINE s == State
<1>4. /\ s.i.op \in 0..255 /\ Type(s.i.op) # "Kil" /\ s.i.ic = TypeCycles(s.i) /\ s.i.ac = ModeCycles(s.i)
      /\ Located(s.i, s.i.ac, trace) /\ Effect(s.i, s.pc, s.sp, trace)
      /\ Len(trace) = IF s.i.ac > 0 THEN s.i.ac + s.i.ic ELSE 1 + s.i.ic
  <2> HIDE DEF s
  <2>1. Running(s, trace) /\ InstructionDone(s) BY <1>2 DEF s
  <2> QED BY <2>1, FinishedIs
<1> QED BY <1>1, <1>2, <1>3, <1>4

LEMMA CrossesDone ==
  ASSUME BusInv, Completed, Mode(ins.op) \in Carried
  PROVE  Crosses(Given) <=> ins.crossed
<1>1. ins.op \in 0..255 /\ ins.ac = ModeCycles(ins) /\ Located(ins, ins.ac, trace) BY CompletedIs
<1>2. ins.ac \in Nat /\ ins.ac >= IF Mode(ins.op) = "indy" THEN 4 ELSE 2 BY <1>1 DEF ModeCycles, Carried
<1> QED BY <1>1, <1>2, CrossesIs

\* A branch of the first CPU, given what the new one has read.
LEMMA BranchDoneIs ==
  ASSUME BusInv, Completed, Type(ins.op) \in Branches
  PROVE  LET r == Branching(Given)
         IN  /\ cpu.pc = r.pc /\ cpu.sp = r.sp /\ r.extra \in 0..2
             /\ Len(trace) = 2 + r.extra
<1> DEFINE next == Plus(ins.from, 2)
           to == Plus(next, B * B + Signed(ByteRead(2)))
           r == Branching(Given)
<1>1. /\ ins.op \in 0..255 /\ ins.ic = TypeCycles(ins) /\ ins.ac = ModeCycles(ins)
      /\ Located(ins, ins.ac, trace) /\ Effect(ins, cpu.pc, cpu.sp, trace)
      /\ Len(trace) = IF ins.ac > 0 THEN ins.ac + ins.ic ELSE 1 + ins.ic
  BY CompletedIs
<1>2. Mode(ins.op) = "rel" BY <1>1, OpIs
<1>3. ins.ac = 1 BY <1>1, <1>2 DEF ModeCycles
<1>4. ins.addr = to BY <1>1, <1>2, <1>3 DEF Located, ByteRead, ReadIn
<1>5. Behind(ins) = next
  <2>1. OperandsRead(ins.op, 1) = 1 BY <1>2 DEF OperandsRead
  <2>2. 1 + 1 = 2 OBVIOUS
  <2> QED BY <1>3, <2>1, <2>2 DEF Behind
<1>6. Given.o[1] = ByteRead(2)
  <2>1. Type(ins.op) # "Jsr" BY DEF Branches
  <2>2. Bytes(ins.op) = 2 BY <1>2, <2>1 DEF Bytes
  <2>3. OperandRead = <<ByteRead(2)>> BY <2>1, <2>2 DEF OperandRead
  <2> QED BY <2>3, GivenIs
<1> HIDE DEF next, to
<1>7. /\ cpu.sp = ins.sp
      /\ IF ins.taken THEN cpu.pc = to /\ ins.far = (Page(next) # Page(to)) ELSE cpu.pc = next
  BY <1>1, <1>4, <1>5 DEF Effect, BranchEffect
<1>8. r.sp = ins.sp /\ IF ins.taken THEN r.pc = to /\ r.extra = IF Page(to) = Page(next) THEN 1 ELSE 2
                       ELSE r.pc = next /\ r.extra = 0
  <2>1. Given.sp = ins.sp /\ Given.taken = ins.taken /\ Given.pc = ins.from BY GivenIs
  <2> HIDE DEF r
  <2> QED BY <1>6, <2>1, BranchingIs DEF next, to, r
<1>9. ins.ic = IF ~ins.taken THEN 1 ELSE IF ~ins.far THEN 2 ELSE 3 BY <1>1 DEF TypeCycles
<1> HIDE DEF r
<1>10. cpu.pc = r.pc /\ cpu.sp = r.sp /\ r.extra \in 0..2 BY <1>7, <1>8
<1>11. Len(trace) = 1 + ins.ic BY <1>1, <1>3
<1>12. ins.ic = 1 + r.extra
  <2>1. CASE ins.taken
    <3>1. ins.far <=> Page(next) # Page(to)
      <4>1. ins.far = (Page(next) # Page(to)) BY <1>7, <2>1
      <4> QED BY <4>1
    <3>2. CASE Page(next) = Page(to)
      <4>1. ins.ic = 2 BY <1>9, <2>1, <3>1, <3>2
      <4>2. r.extra = 1 BY <1>8, <2>1, <3>2
      <4> QED BY <4>1, <4>2
    <3>3. CASE Page(next) # Page(to)
      <4>1. ins.ic = 3 BY <1>9, <2>1, <3>1, <3>3
      <4>2. r.extra = 2 BY <1>8, <2>1, <3>3
      <4> QED BY <4>1, <4>2
    <3> QED BY <3>2, <3>3
  <2>2. CASE ~ins.taken BY <1>8, <1>9, <2>2
  <2> QED BY <2>1, <2>2
<1>13. Len(trace) = 2 + r.extra BY <1>10, <1>11, <1>12
<1> QED BY <1>10, <1>13 DEF r

LEMMA UpDown ==
  \A k \in Byte : /\ Down(k) = (k + B - 1) % B /\ Down(Down(k)) = (k + B - 2) % B
                  /\ Down(Down(Down(k))) = (k + B - 3) % B
                  /\ Up(k) = (k + 1) % B /\ Up(Up(k)) = (k + 2) % B /\ Up(Up(Up(k))) = (k + 3) % B
<1> TAKE k \in Byte
<1>1. B \in Int /\ B >= 4 /\ k \in Int /\ k >= 0 /\ k < B BY BytesAre DEF Byte
<1>2. \A n \in Int : n >= 0 /\ n < B => n % B = n BY <1>1, Z3
<1>3. \A n \in Int : n >= B /\ n < 2 * B => n % B = n - B BY <1>1, Z3
<1>4. \A j \in Int : j >= 0 /\ j < B =>
        /\ Up(j) = IF j = B - 1 THEN 0 ELSE j + 1
        /\ Down(j) = IF j = 0 THEN B - 1 ELSE j - 1
  <2> TAKE j \in Int
  <2>1. SUFFICES ASSUME j >= 0, j < B
                 PROVE  /\ Up(j) = IF j = B - 1 THEN 0 ELSE j + 1
                        /\ Down(j) = IF j = 0 THEN B - 1 ELSE j - 1
    OBVIOUS
  <2>2. (j + 1) % B = IF j = B - 1 THEN 0 ELSE j + 1
    <3>1. CASE j = B - 1
      <4>1. j + 1 \in Int /\ j + 1 >= B /\ j + 1 < 2 * B /\ (j + 1) - B = 0 BY <1>1, <3>1
      <4> QED BY <1>3, <3>1, <4>1
    <3>2. CASE j # B - 1
      <4>1. j + 1 \in Int /\ j + 1 >= 0 /\ j + 1 < B BY <1>1, <2>1, <3>2
      <4> QED BY <1>2, <3>2, <4>1
    <3> QED BY <3>1, <3>2
  <2>3. (j + B - 1) % B = IF j = 0 THEN B - 1 ELSE j - 1
    <3> DEFINE n == j + B - 1
    <3>1. CASE j = 0
      <4>1. n \in Int /\ n >= 0 /\ n < B /\ n = B - 1 BY <1>1, <3>1
      <4> HIDE DEF n
      <4>2. n % B = B - 1 BY <1>2, <4>1
      <4> QED BY <3>1, <4>2 DEF n
    <3>2. CASE j # 0
      <4>1. n \in Int /\ n >= B /\ n < 2 * B /\ n - B = j - 1 BY <1>1, <2>1, <3>2
      <4> HIDE DEF n
      <4>2. n % B = j - 1 BY <1>3, <4>1
      <4> QED BY <3>2, <4>2 DEF n
    <3> QED BY <3>1, <3>2
  <2> QED BY <2>2, <2>3 DEF Up, Down
<1>5. \A j \in Int : \A n \in Int : j >= 0 /\ j < B /\ n >= 0 /\ n <= 3 =>
        /\ (j + n) % B = IF j + n < B THEN j + n ELSE (j + n) - B
        /\ (j + B - n) % B = IF j < n THEN (j + B) - n ELSE j - n
  <2> TAKE j \in Int
  <2> TAKE n \in Int
  <2>1. SUFFICES ASSUME j >= 0, j < B, n >= 0, n <= 3
                 PROVE  /\ (j + n) % B = IF j + n < B THEN j + n ELSE (j + n) - B
                        /\ (j + B - n) % B = IF j < n THEN (j + B) - n ELSE j - n
    OBVIOUS
  <2> DEFINE x == j + n
             y == j + B - n
  <2>2. x \in Int /\ x >= 0 /\ x < 2 * B /\ y \in Int /\ y >= 0 /\ y < 2 * B BY <1>1, <2>1
  <2>3. j < n => y < B BY <1>1, <2>1
  <2>4. ~(j < n) => y >= B /\ y - B = j - n BY <1>1, <2>1
  <2>5. y = (j + B) - n BY <1>1
  <2> HIDE DEF x, y
  <2>6. x % B = IF x < B THEN x ELSE x - B BY <1>1, <1>2, <1>3, <2>2
  <2>7. y % B = IF j < n THEN y ELSE j - n BY <1>1, <1>2, <1>3, <2>2, <2>3, <2>4
  <2>8. (j + B - n) % B = IF j < n THEN (j + B) - n ELSE j - n BY <2>5, <2>7 DEF y
  <2> QED BY <2>6, <2>8 DEF x
<1>6. /\ (k + 1) % B = IF k + 1 < B THEN k + 1 ELSE (k + 1) - B
      /\ (k + 2) % B = IF k + 2 < B THEN k + 2 ELSE (k + 2) - B
      /\ (k + 3) % B = IF k + 3 < B THEN k + 3 ELSE (k + 3) - B
      /\ (k + B - 1) % B = IF k < 1 THEN (k + B) - 1 ELSE k - 1
      /\ (k + B - 2) % B = IF k < 2 THEN (k + B) - 2 ELSE k - 2
      /\ (k + B - 3) % B = IF k < 3 THEN (k + B) - 3 ELSE k - 3
  BY <1>1, <1>5
<1> DEFINE u1 == Up(k)
           u2 == Up(u1)
           u3 == Up(u2)
           d1 == Down(k)
           d2 == Down(d1)
           d3 == Down(d2)
<1>7. /\ u1 = IF k = B - 1 THEN 0 ELSE k + 1
      /\ d1 = IF k = 0 THEN B - 1 ELSE k - 1
  BY <1>1, <1>4
<1> HIDE DEF u1, d1
<1>8. u1 \in Int /\ u1 >= 0 /\ u1 < B /\ d1 \in Int /\ d1 >= 0 /\ d1 < B BY <1>1, <1>7
<1>9. /\ u2 = IF u1 = B - 1 THEN 0 ELSE u1 + 1
      /\ d2 = IF d1 = 0 THEN B - 1 ELSE d1 - 1
  BY <1>4, <1>8
<1> HIDE DEF u2, d2
<1>10. u2 \in Int /\ u2 >= 0 /\ u2 < B /\ d2 \in Int /\ d2 >= 0 /\ d2 < B BY <1>1, <1>8, <1>9
<1>11. /\ u3 = IF u2 = B - 1 THEN 0 ELSE u2 + 1
       /\ d3 = IF d2 = 0 THEN B - 1 ELSE d2 - 1
  BY <1>4, <1>10
<1> HIDE DEF u3, d3
<1>12. u2 = (k + 2) % B /\ d2 = (k + B - 2) % B BY <1>1, <1>6, <1>7, <1>9
<1>13. u3 = (k + 3) % B BY <1>1, <1>6, <1>7, <1>9, <1>11
<1>14. d3 = (k + B - 3) % B BY <1>1, <1>6, <1>7, <1>9, <1>11
<1> QED BY <1>12, <1>13, <1>14 DEF u1, u2, u3, d1, d2, d3, Up, Down

LEMMA TickCyclesAre ==
  ASSUME NEW in
  PROVE  /\ Mnemonic(in) = "BRK" => TickCycles(in) = BrkCycles(in)
         /\ Mnemonic(in) \in BranchMnemonics => TickCycles(in) = BranchCycles(in)
         /\ Mnemonic(in) \notin BranchMnemonics \cup {"BRK"}
              => TickCycles(in) = <<<<Peek(in.pc)>> \o RunOpcode(in).io>>
                                  \o [c \in 1 .. BaseCycles[in.op] + RunOpcode(in).extra - 1 |-> <<>>]
<1>1. /\ Kind(in, "brk") <=> Mnemonic(in) = "BRK"
      /\ Kind(in, "branch") <=> Mnemonic(in) \in BranchMnemonics
  BY KindsAre DEF Kind
<1>2. "BRK" \notin BranchMnemonics BY DEF BranchMnemonics
<1> QED BY <1>1, <1>2 DEF TickCycles

\* The arms of the first CPU that cost a cycle more than the table has.
LEMMA ExtraIs ==
  ASSUME BusInv, Completed, Type(ins.op) \notin Branches
  PROVE  RunOpcode(Given).extra = IF Carry(ins) THEN 1 ELSE 0
<1> DEFINE m == Mnemonic(Given)
           ty == Type(ins.op)
           r == RunOpcode(Given)
<1>1. ins.op \in 0..255 /\ ty # "Kil" /\ ins.crossed \in BOOLEAN BY CompletedIs DEF Ins
<1>2. CASE Plain(ty)
  <2>1. Mode(ins.op) \in Carried => (Crosses(Given) <=> ins.crossed) BY CrossesDone
  <2> QED BY <1>1, <1>2, <2>1, RunFollows DEF Follows
<1>3. CASE ty \in Leaps \cup Pushes \cup Pulls
  <2>1. ~Carry(ins)
    <3>1. ty = "Jmp" \/ Mode(ins.op) = "imp" BY <1>1, <1>3, OpIs DEF Implied, Leaps, Pushes, Pulls
    <3>2. Mode(ins.op) \notin Carried BY <1>1, <3>1, OpIs DEF Carried
    <3> QED BY <3>2 DEF Carry
  <2>2. SameType(Decode[ins.op], Arm[ins.op]) /\ m = Arm[ins.op][1] BY <1>1, ModeOfIs
  <2>3. /\ ty = "Jmp" => m = "JMP"
        /\ ty = "Jsr" => m = "JSR"
        /\ ty = "Rts" => m = "RTS"
        /\ ty = "Rti" => m = "RTI"
        /\ ty = "Brk" => m = "BRK"
        /\ ty \in Pushes => m \in {"PHA", "PHP"}
        /\ ty \in Pulls => m \in {"PLA", "PLP"}
    BY <2>2 DEF SameType, Type, Pushes, Pulls
  <2> HIDE DEF m
  <2>4. r.extra = 0
    <3>1. CASE ty = "Jmp" BY <2>3, <3>1, RunIs, JumpingIs DEF m
    <3>2. CASE ty = "Jsr" BY <2>3, <3>2, RunIs, CallingIs DEF m, Stacks
    <3>3. CASE ty = "Rts" BY <2>3, <3>3, RunIs, RtsFirst DEF m, Stacks
    <3>4. CASE ty = "Rti" BY <2>3, <3>4, RunIs, RtiFirst DEF m, Stacks
    <3>5. CASE ty = "Brk" BY <2>3, <3>5, RunIs, BrkFirst DEF m, Stacks
    <3>6. CASE ty \in Pushes BY <2>3, <3>6, RunIs, PushingIs DEF m, Stacks
    <3>7. CASE ty \in Pulls BY <2>3, <3>7, RunIs, PullingIs DEF m, Stacks
    <3> QED BY <1>3, <3>1, <3>2, <3>3, <3>4, <3>5, <3>6, <3>7 DEF Leaps
  <2> QED BY <2>1, <2>4
<1> QED BY <1>2, <1>3 DEF Plain

LEMMA CyclesAgree == ASSUME BusInv, Completed PROVE Len(trace) = Len(TickCycles(Given))
<1>1. ins.op \in 0..255 /\ Type(ins.op) # "Kil" BY CompletedIs
<1>2. SameType(Decode[ins.op], Arm[ins.op]) /\ Mnemonic(Given) = Arm[ins.op][1] /\ Given.op = ins.op
  BY <1>1, ModeOfIs
<1>3. /\ Mnemonic(Given) = "BRK" <=> Type(ins.op) = "Brk"
      /\ Mnemonic(Given) \in BranchMnemonics <=> Type(ins.op) \in Branches
  BY <1>2 DEF SameType, Type
<1>4. CASE Type(ins.op) \in Branches
  <2> DEFINE r == Branching(Given)
  <2>1. r.extra \in Nat /\ Len(trace) = 2 + r.extra BY <1>4, BranchDoneIs
  <2>2. TickCycles(Given) = <<<<r.io[1]>>, <<r.io[2]>>>> \o [c \in 1 .. r.extra |-> <<>>]
    BY <1>3, <1>4, TickCyclesAre DEF BranchCycles
  <2> HIDE DEF r
  <2>3. Len(TickCycles(Given)) = r.extra + 2 BY <2>1, <2>2, Filled2
  <2> QED BY <2>1, <2>3
<1> DEFINE more == IF Carry(ins) THEN 1 ELSE 0
           base == BaseCycles[ins.op]
<1>5. ASSUME Type(ins.op) \notin Branches PROVE Len(trace) = base + more /\ base \in Nat /\ base >= 2
  <2>1. Running(State, trace) /\ InstructionDone(State) BY CompletedIs
  <2>2. State.i = ins BY DEF State
  <2> DEFINE s == State
  <2> HIDE DEF s
  <2>3. s.i = ins /\ Running(s, trace) /\ InstructionDone(s) /\ Type(s.i.op) \notin Branches
    BY <1>5, <2>1, <2>2 DEF s
  <2>4. Len(trace) = BaseCycles[s.i.op] + (IF Carry(s.i) THEN 1 ELSE 0) /\ BaseCycles[s.i.op] \in Nat
        /\ BaseCycles[s.i.op] >= 2
    BY <2>3, CyclesAre
  <2> QED BY <2>3, <2>4
<1>6. CASE Type(ins.op) = "Brk"
  <2>1. Len(TickCycles(Given)) = 7
    <3>1. TickCycles(Given) = BrkCycles(Given) BY <1>3, <1>6, TickCyclesAre
    <3> QED BY <3>1 DEF BrkCycles
  <2>2. Type(ins.op) \notin Branches BY <1>6 DEF Branches
  <2>3. Mode(ins.op) = "imp" BY <1>1, <1>6, OpIs DEF Implied
  <2>4. base = 7
    <3>1. base = ModeLength(Decode[ins.op]) + TypeLength(Type(ins.op)) BY <1>1, OpcodeAgrees, Zenon DEF Type
    <3>2. ModeLength(Decode[ins.op]) = 1 BY <2>3 DEF ModeLength, Mode
    <3>3. TypeLength(Type(ins.op)) = 6 BY <1>6 DEF TypeLength, Modifies, Rotates, Pushes, Pulls
    <3> QED BY <3>1, <3>2, <3>3
  <2>5. more = 0 BY <2>3 DEF Carry, Carried
  <2> QED BY <1>5, <2>1, <2>2, <2>4, <2>5
<1>7. CASE Type(ins.op) \notin Branches \cup {"Brk"}
  <2> DEFINE n == base + RunOpcode(Given).extra - 1
             io == <<Peek(Given.pc)>> \o RunOpcode(Given).io
  <2>1. Len(trace) = base + more /\ base \in Nat /\ base >= 2 BY <1>5, <1>7
  <2>2. RunOpcode(Given).extra = more BY <1>7, ExtraIs
  <2>3. n \in Nat /\ n + 1 = base + more BY <2>1, <2>2
  <2>4. TickCycles(Given) = <<io>> \o [c \in 1 .. n |-> <<>>] BY <1>2, <1>3, <1>7, TickCyclesAre
  <2> HIDE DEF n, io, base, more
  <2>5. Len(TickCycles(Given)) = n + 1 BY <2>3, <2>4, Filled
  <2> QED BY <2>1, <2>3, <2>5
<1> QED BY <1>4, <1>6, <1>7

\* Every opcode, run by mode and type cycle by cycle, takes the cycles that the first CPU counts:
\* those of the opcode table, with those of a page crossed and of a branch taken.
THEOREM CyclesAgreeAlways == BusSpec => []CyclesAsFirst
<1>1. BusInv => CyclesAsFirst
  <2>1. BusInv /\ Completed => Len(trace) = Len(TickCycles(Given)) BY CyclesAgree
  <2> QED BY <2>1 DEF CyclesAsFirst, Cycles
<1> QED BY <1>1, BusInvariant, PTL

Goes(r) == cpu.pc = r.pc /\ cpu.sp = r.sp

LEMMA PlainGoes == ASSUME BusInv, Completed, Plain(Type(ins.op)) PROVE Goes(RunOpcode(Given))
<1> DEFINE ty == Type(ins.op)
           r == RunOpcode(Given)
           sp == IF ty \in {"Xas", "Txs"} THEN ins.mask
                 ELSE IF ty = "Lar" THEN BitAnd(ins.sp, ins.mask) ELSE ins.sp
<1>1. /\ ins.op \in 0..255 /\ ty # "Kil" /\ ins.crossed \in BOOLEAN /\ ins.ac = ModeCycles(ins)
      /\ Effect(ins, cpu.pc, cpu.sp, trace)
  BY CompletedIs DEF Ins
<1>2. Mode(ins.op) \in Carried => (Crosses(Given) <=> ins.crossed) BY CrossesDone
<1>3. r.pc = Plus(Given.pc, OperandBytes(Given) + 1) /\ r.sp = sp BY <1>1, <1>2, RunFollows DEF Follows
<1>4. cpu.pc = Behind(ins) /\ cpu.sp = sp BY <1>1 DEF Effect, PlainEffect, Plain, Leaps
<1>5. Behind(ins) = Plus(Given.pc, OperandBytes(Given) + 1)
  <2>1. Mode(ins.op) # "rel" BY <1>1, OpIs DEF Plain
  <2>2. OperandsRead(ins.op, ins.ac) = OperandBytes(Given) BY <1>1, <2>1, OperandBytesIs
  <2>3. OperandBytes(Given) + 1 = 1 + OperandBytes(Given)
    <3>1. OperandBytes(Given) \in Int BY DEF OperandBytes
    <3> QED BY <3>1
  <2> QED BY <2>2, <2>3, GivenIs DEF Behind
<1> HIDE DEF r, sp
<1>6. Goes(r) BY <1>3, <1>4, <1>5 DEF Goes
<1> QED BY <1>6 DEF r

LEMMA JumpGoes == ASSUME BusInv, Completed, Type(ins.op) = "Jmp" PROVE Goes(Jumping(Given))
<1>1. /\ ins.op \in 0..255 /\ ins.ac = ModeCycles(ins) /\ Located(ins, ins.ac, trace)
      /\ Effect(ins, cpu.pc, cpu.sp, trace)
  BY CompletedIs
<1>2. cpu.pc = ins.addr /\ cpu.sp = ins.sp BY <1>1 DEF Effect, JmpEffect, Branches
<1>3. Jumping(Given).sp = ins.sp
      /\ Jumping(Given).pc = IF ModeOf(Given) = "abs" THEN FromBytes(OperandRead) ELSE FromBytes(PointerRead)
  BY JumpingIs, GivenIs
<1>4. ModeOf(Given) = Mode(ins.op) BY <1>1, ModeOfIs DEF SameMode, Accumulators, Fits, Mode, Type, Branches
<1>5. Mode(ins.op) = "ind" \/ (Mode(ins.op) = "abs" /\ Access(ins.op) = "J") BY <1>1, OpIs
<1>6. CASE Mode(ins.op) = "ind"
  <2>1. ins.ac = 4 BY <1>1, <1>6 DEF ModeCycles
  <2>2. ins.addr = WordIn(trace, 4) BY <1>1, <1>6, <2>1 DEF Located
  <2>3. PointerRead = <<ByteRead(4), ByteRead(5)>> BY <1>6 DEF PointerRead
  <2>4. FromBytes(PointerRead) = ByteRead(4) + B * ByteRead(5) BY <2>3, FromTwo
  <2>5. FromBytes(PointerRead) = WordIn(trace, 4) BY <2>4 DEF ByteRead, WordIn, ReadIn
  <2> QED BY <1>2, <1>3, <1>4, <1>6, <2>2, <2>5 DEF Goes
<1>7. CASE Mode(ins.op) = "abs" /\ Access(ins.op) = "J"
  <2>1. ins.ac = 2 BY <1>1, <1>7 DEF ModeCycles
  <2>2. ins.addr = WordIn(trace, 2) BY <1>1, <1>7, <2>1 DEF Located
  <2>3. Bytes(ins.op) = 3 BY <1>7 DEF Bytes
  <2>4. OperandRead = <<ByteRead(2), ByteRead(3)>> BY <2>3 DEF OperandRead
  <2>5. FromBytes(OperandRead) = ByteRead(2) + B * ByteRead(3) BY <2>4, FromTwo
  <2>6. FromBytes(OperandRead) = WordIn(trace, 2) BY <2>5 DEF ByteRead, WordIn, ReadIn
  <2> QED BY <1>2, <1>3, <1>4, <1>7, <2>2, <2>6 DEF Goes
<1> QED BY <1>5, <1>6, <1>7

\* The types that take their way from the stack, a vector or their own operand.
LEMMA LeapIs ==
  ASSUME BusInv, Completed, Type(ins.op) \in {"Jsr", "Rts", "Rti", "Brk"} \cup Pushes \cup Pulls
  PROVE  /\ Mode(ins.op) = "imp" /\ ins.ac = 0 /\ ins.ic = TypeLength(Type(ins.op)) /\ ins.sp \in Byte
         /\ Effect(ins, cpu.pc, cpu.sp, trace)
<1>1. /\ ins.op \in 0..255 /\ ins.ac = ModeCycles(ins) /\ ins.sp \in Byte /\ ins.ic = TypeCycles(ins)
      /\ Effect(ins, cpu.pc, cpu.sp, trace)
  BY CompletedIs
<1>2. Mode(ins.op) = "imp" BY <1>1, OpIs DEF Implied, Pushes, Pulls
<1>3. Type(ins.op) \notin Branches BY DEF Branches, Pushes, Pulls
<1> QED BY <1>1, <1>2, <1>3 DEF ModeCycles, TypeCycles

LEMMA CallGoes == ASSUME BusInv, Completed, Type(ins.op) = "Jsr" PROVE Goes(Calling(Given))
<1>1. ins.ic = 5 /\ ins.sp \in Byte /\ Effect(ins, cpu.pc, cpu.sp, trace)
  BY LeapIs DEF TypeLength, Modifies, Rotates, Pushes, Pulls
<1>2. cpu.sp = Down(Down(ins.sp)) /\ cpu.pc = ReadIn(trace, 2) + B * ReadIn(trace, 6)
  BY <1>1 DEF Effect, JsrEffect, Branches
<1>3. OperandRead = <<ByteRead(2), ByteRead(6)>>
  <2>1. Mode(ins.op) = "imp" /\ Type(ins.op) = "Jsr" BY LeapIs
  <2>2. Bytes(ins.op) = 3 BY <2>1 DEF Bytes
  <2> QED BY <2>2 DEF OperandRead
<1>4. FromBytes(OperandRead) = ByteRead(2) + B * ByteRead(6) BY <1>3, FromTwo
<1>5. Calling(Given).pc = FromBytes(OperandRead) /\ Calling(Given).sp = (ins.sp + B - 2) % B
  BY CallingIs, GivenIs DEF Stacks
<1>6. Down(Down(ins.sp)) = (ins.sp + B - 2) % B BY <1>1, UpDown
<1> QED BY <1>2, <1>4, <1>5, <1>6 DEF Goes, ByteRead, ReadIn

LEMMA RtsGoes == ASSUME BusInv, Completed, Type(ins.op) = "Rts" PROVE Goes(Rts(Given))
<1>1. ins.ic = 5 /\ ins.sp \in Byte /\ Effect(ins, cpu.pc, cpu.sp, trace) /\ Mode(ins.op) = "imp"
  BY LeapIs DEF TypeLength, Modifies, Rotates, Pushes, Pulls
<1>2. cpu.sp = Up(Up(ins.sp)) /\ cpu.pc = Plus(WordIn(trace, 4), 1)
  BY <1>1 DEF Effect, RtsEffect, Branches
<1>3. PointerRead = <<ByteRead(4), ByteRead(5)>> BY <1>1 DEF PointerRead
<1>4. FromBytes(PointerRead) = ByteRead(4) + B * ByteRead(5) BY <1>3, FromTwo
<1>5. Rts(Given).pc = Plus(FromBytes(PointerRead), 1) /\ Rts(Given).sp = (ins.sp + 2) % B
  BY RtsFirst, GivenIs DEF Stacks
<1>6. Up(Up(ins.sp)) = (ins.sp + 2) % B BY <1>1, UpDown
<1>7. FromBytes(PointerRead) = WordIn(trace, 4) BY <1>4 DEF ByteRead, WordIn, ReadIn
<1> QED BY <1>2, <1>5, <1>6, <1>7 DEF Goes

LEMMA RtiGoes == ASSUME BusInv, Completed, Type(ins.op) = "Rti" PROVE Goes(Rti(Given))
<1>1. ins.ic = 5 /\ ins.sp \in Byte /\ Effect(ins, cpu.pc, cpu.sp, trace) /\ Mode(ins.op) = "imp"
  BY LeapIs DEF TypeLength, Modifies, Rotates, Pushes, Pulls
<1>2. cpu.sp = Up(Up(Up(ins.sp))) /\ cpu.pc = WordIn(trace, 5)
  BY <1>1 DEF Effect, RtiEffect, Branches
<1>3. PointerRead = <<ByteRead(5), ByteRead(6)>> BY <1>1 DEF PointerRead
<1>4. FromBytes(PointerRead) = ByteRead(5) + B * ByteRead(6) BY <1>3, FromTwo
<1>5. Rti(Given).pc = FromBytes(PointerRead) /\ Rti(Given).sp = (ins.sp + 3) % B
  BY RtiFirst, GivenIs DEF Stacks
<1>6. Up(Up(Up(ins.sp))) = (ins.sp + 3) % B BY <1>1, UpDown
<1>7. FromBytes(PointerRead) = WordIn(trace, 5) BY <1>4 DEF ByteRead, WordIn, ReadIn
<1> QED BY <1>2, <1>5, <1>6, <1>7 DEF Goes

LEMMA BrkGoes == ASSUME BusInv, Completed, Type(ins.op) = "Brk" PROVE Goes(Brk(Given))
<1>1. ins.ic = 6 /\ ins.sp \in Byte /\ Effect(ins, cpu.pc, cpu.sp, trace) /\ Mode(ins.op) = "imp"
  BY LeapIs DEF TypeLength, Modifies, Rotates, Pushes, Pulls
<1>2. cpu.sp = Down(Down(Down(ins.sp))) /\ cpu.pc = Last(trace[6])[3] + B * ReadIn(trace, 7)
  BY <1>1 DEF Effect, BrkEffect, Branches
<1> DEFINE low == Last(trace[6])[3]
<1>3. PointerRead = <<low, ByteRead(7)>> BY <1>1 DEF PointerRead
<1> HIDE DEF low
<1>4. FromBytes(PointerRead) = low + B * ByteRead(7) BY <1>3, FromTwo
<1>5. Brk(Given).pc = FromBytes(PointerRead) /\ Brk(Given).sp = (ins.sp + B - 3) % B
  BY BrkFirst, GivenIs DEF Stacks
<1>6. Down(Down(Down(ins.sp))) = (ins.sp + B - 3) % B BY <1>1, UpDown
<1> QED BY <1>2, <1>4, <1>5, <1>6 DEF Goes, ByteRead, ReadIn, low

LEMMA StackGoes ==
  ASSUME BusInv, Completed
  PROVE  /\ Type(ins.op) \in Pushes => Goes(Pushing(Given))
         /\ Type(ins.op) \in Pulls => Goes(Pulling(Given))
<1> SUFFICES ASSUME Type(ins.op) \in Pushes \cup Pulls
             PROVE  /\ Type(ins.op) \in Pushes => Goes(Pushing(Given))
                    /\ Type(ins.op) \in Pulls => Goes(Pulling(Given))
  OBVIOUS
<1>1. /\ ins.ic > 1 /\ ins.sp \in Byte /\ Effect(ins, cpu.pc, cpu.sp, trace) /\ Mode(ins.op) = "imp"
      /\ ins.ac = 0
  BY LeapIs DEF TypeLength, Modifies, Rotates, Pushes, Pulls
<1>2. cpu.pc = Behind(ins) /\ cpu.sp = IF Type(ins.op) \in Pushes THEN Down(ins.sp) ELSE Up(ins.sp)
  <2>1. StackEffect(ins, cpu.pc, cpu.sp)
    BY <1>1 DEF Effect, Branches, Pushes, Pulls
  <2>2. ~(ins.ic <= 1)
    <3>1. ins.ic \in Int BY CompletedIs DEF Ins
    <3> QED BY <1>1, <3>1
  <2> QED BY <2>1, <2>2 DEF StackEffect
<1>3. Behind(ins) = Plus(ins.from, 1)
  <2>1. OperandsRead(ins.op, 0) = 0 BY <1>1 DEF OperandsRead
  <2>2. 1 + 0 = 1 OBVIOUS
  <2> QED BY <1>1, <2>1, <2>2 DEF Behind
<1>4. Pushing(Given).pc = Plus(ins.from, 1) /\ Pushing(Given).sp = (ins.sp + B - 1) % B
  BY PushingIs, GivenIs DEF Stacks
<1>5. Pulling(Given).pc = Plus(ins.from, 1) /\ Pulling(Given).sp = (ins.sp + 1) % B
  BY PullingIs, GivenIs DEF Stacks
<1>6. Type(ins.op) \in Pulls => Type(ins.op) \notin Pushes BY DEF Pushes, Pulls
<1>7. Down(ins.sp) = (ins.sp + B - 1) % B /\ Up(ins.sp) = (ins.sp + 1) % B BY <1>1, UpDown
<1> QED BY <1>2, <1>3, <1>4, <1>5, <1>6, <1>7 DEF Goes

LEMMA NextAgrees == ASSUME BusInv, Completed PROVE Goes(RunOpcode(Given))
<1> DEFINE m == Mnemonic(Given)
           ty == Type(ins.op)
<1>1. ins.op \in 0..255 /\ ty # "Kil" BY CompletedIs
<1>2. /\ ty = "Jmp" => m = "JMP"
      /\ ty = "Jsr" => m = "JSR"
      /\ ty = "Rts" => m = "RTS"
      /\ ty = "Rti" => m = "RTI"
      /\ ty = "Brk" => m = "BRK"
      /\ ty \in Pushes => m \in {"PHA", "PHP"}
      /\ ty \in Pulls => m \in {"PLA", "PLP"}
      /\ ty \in Branches => m \in BranchMnemonics
  <2>1. SameType(Decode[ins.op], Arm[ins.op]) /\ m = Arm[ins.op][1] BY <1>1, ModeOfIs
  <2> QED BY <2>1 DEF SameType, Type, Pushes, Pulls
<1>3. CASE ty = "Jmp" BY <1>2, <1>3, RunIs, JumpGoes
<1>4. CASE ty = "Jsr" BY <1>2, <1>4, RunIs, CallGoes
<1>5. CASE ty = "Rts" BY <1>2, <1>5, RunIs, RtsGoes
<1>6. CASE ty = "Rti" BY <1>2, <1>6, RunIs, RtiGoes
<1>7. CASE ty = "Brk" BY <1>2, <1>7, RunIs, BrkGoes
<1>8. CASE ty \in Pushes \cup Pulls BY <1>2, <1>8, RunIs, StackGoes
<1>9. CASE ty \in Branches
  <2>1. RunOpcode(Given) = Branching(Given) BY <1>2, <1>9, RunIs
  <2>2. cpu.pc = Branching(Given).pc /\ cpu.sp = Branching(Given).sp BY <1>9, BranchDoneIs
  <2> QED BY <2>1, <2>2 DEF Goes
<1>10. CASE Plain(ty) BY <1>10, PlainGoes
<1> QED BY <1>3, <1>4, <1>5, <1>6, <1>7, <1>8, <1>9, <1>10 DEF Plain, Leaps

LEMMA HaltsAgree == ASSUME BusInv, ins.op # NoOpcode PROVE cpu.halted <=> Halts(ins.op)
<1>1. /\ ins.op \in 0..255 /\ (cpu.halted <=> Type(ins.op) = "Kil")
  <2>1. Running(State, trace) /\ (cpu.halted <=> Type(ins.op) = "Kil") BY DEF BusInv, InstructionInv
  <2> QED BY <2>1 DEF Running, State
<1>2. Halts(ins.op) <=> Arm[ins.op][1] = "KIL" BY KindsAre DEF Halts
<1>3. Arm[ins.op][1] = "KIL" <=> Type(ins.op) = "Kil" BY <1>1, ModeOfIs DEF SameType, Type
<1> QED BY <1>1, <1>2, <1>3

\* Every instruction leaves the pc and the stack pointer where the first CPU leaves them for the
\* same bytes, and exactly the KIL opcodes halt the CPU.
THEOREM NextAgreesAlways == BusSpec => []NextAsFirst
<1>1. BusInv => NextAsFirst
  <2>1. BusInv /\ Completed => cpu.pc = RunOpcode(Given).pc /\ cpu.sp = RunOpcode(Given).sp
    BY NextAgrees DEF Goes
  <2>2. BusInv /\ ins.op # NoOpcode => (cpu.halted <=> Halts(ins.op)) BY HaltsAgree
  <2> QED BY <2>1, <2>2 DEF NextAsFirst
<1> QED BY <1>1, BusInvariant, PTL
=============================================================================

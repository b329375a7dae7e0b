------------------------------ MODULE NesTick ------------------------------
(***************************************************************************)
(* One call of Nes::run_cpu_tick after another: the loop that advances the *)
(* PPU and the APU by one CPU cycle and then lets the CPU execute that     *)
(* cycle, the interrupt service at the end of the instruction, and the OAM *)
(* DMA that replaces an instruction when $4014 was written.                *)
(*                                                                         *)
(* Time is counted in CPU cycles.  The PPU is reduced to what run_cpu_tick *)
(* sees of it: where in the frame it is, the NMI latch that entering       *)
(* VBlank sets and leaving it clears, and the frame-complete flag.  The    *)
(* APU is its cycle parity and the level of its IRQ line, which may rise   *)
(* at any clock.  The program is arbitrary: each fetch picks the class of  *)
(* the instruction.                                                        *)
(***************************************************************************)
EXTENDS Naturals

CONSTANTS
  FrameMin, FrameMax, \* least and greatest number of CPU cycles from VBlank to VBlank
  VBlankLen,          \* CPU cycles from entering VBlank to leaving it
  ResetPos,           \* where in the frame a reset puts the PPU
  DmaBase,            \* cycles of an OAM DMA that starts on an even cycle (513)
  IntCycles,          \* cycles of an NMI or IRQ sequence (7)
  OpCycles            \* lengths of the instructions with no class of their own

MaxCycles == 8        \* the longest instruction of the 6502

ASSUME NesAssumption ==
  /\ FrameMin \in Nat /\ FrameMax \in Nat /\ VBlankLen \in Nat
  /\ ResetPos \in Nat /\ DmaBase \in Nat /\ IntCycles \in Nat
  /\ OpCycles \subseteq 2 .. MaxCycles
  /\ DmaBase % 2 = 1 /\ IntCycles % 2 = 1
  /\ IntCycles + DmaBase + 1 < VBlankLen
  /\ VBlankLen <= ResetPos /\ ResetPos < FrameMax
  /\ VBlankLen + MaxCycles + 3 * IntCycles < FrameMin /\ FrameMin <= FrameMax

VARIABLES
  pc,        \* where run_cpu_tick is: "boundary" between two calls, "exec" in the loop, "service" after it
  instr,     \* class of the current instruction, "none" before the fetch
  left,      \* execution cycles the current instruction still needs
  iflag,     \* the I flag of the status register
  delay,     \* Cpu2::delay_interrupt_check
  saved,     \* Cpu2::saved_i_flag_for_delay
  nmi, irq,  \* CpuState::nmi_pending and irq_pending
  inSeq,     \* Cpu2::in_interrupt_sequence
  halted,    \* Cpu2::halted
  odd,       \* Cpu2::total_cycles is odd
  oam,       \* MemController::oam_dma_page is Some
  enabled,   \* bit 7 of PPUCTRL: VBlank raises an NMI
  ppu,       \* [pos, latch, complete, owed]: position in the frame, NMI latch, frame_complete
  apu,       \* [line, odd]: level of poll_irq, parity of apu_cycle
  ready,     \* Nes::ready_to_render
  (* History: read by the properties, never by the program. *)
  taken,     \* the interrupts the last step serviced
  last,      \* class of the instruction that completed last
  iBefore,   \* the I flag before that instruction completed
  unmasked,  \* an instruction has cleared I since the last reset
  held       \* boundaries in a row at which an IRQ with I clear was not taken

cpuVars  == <<instr, left, iflag, delay, saved, nmi, irq, inSeq, halted, odd>>
histVars == <<taken, last, iBefore, unmasked, held>>
vars     == <<pc, cpuVars, oam, enabled, ppu, apu, ready, histVars>>

-----------------------------------------------------------------------------
(* The instructions, by what they do to the interrupt machinery.  "op" is  *)
(* any instruction that does nothing to it; "dma" writes $4014, "ctrl"     *)
(* writes $2000 and "ack" accesses $4015, each in its last cycle: a read   *)
(* clears the frame counter's IRQ and a write the DMC's, so the line falls *)
(* unless the other one holds it.                                          *)

Delaying  == {"cli", "sei", "plp"}
RegAccess == {"dma", "ctrl", "ack"}
Classes   == {"op", "rti", "brk", "kil"} \cup Delaying \cup RegAccess

\* Execution cycles after the fetch cycle.  A jammed CPU never gets to execute one.
ExecCycles(k) ==
  CASE k \in {"cli", "sei", "kil"} -> {1}
    [] k = "plp"         -> {3}
    [] k = "rti"         -> {5}
    [] k = "brk"         -> {6}
    [] k \in RegAccess   -> {n - 1 : n \in {m \in OpCycles : m >= 4}}
    [] OTHER             -> {n - 1 : n \in OpCycles}

\* BRK picks its vector and sets I with one more execution cycle to go.
BrkVectorCycle == 2

\* The values of the I flag that completing an instruction may leave.
IAfter(k, i) ==
  CASE k = "cli"            -> {FALSE}
    [] k = "sei"            -> {TRUE}
    [] k \in {"plp", "rti"} -> BOOLEAN
    [] OTHER                -> {i}

\* The delay flag when an instruction completes.
DelayAfter_NeverCleared(k) == delay \/ k \in Delaying
DelayAfter(k) == k \in Delaying

\* The interrupt mask the IRQ poll uses.
MaskSeen_BlindDelay(d, s, i) == d \/ i
MaskSeen(d, s, i) == IF d THEN s ELSE i

-----------------------------------------------------------------------------
(* The hardware around the CPU, n CPU cycles later. *)

Count(b) == IF b THEN 1 ELSE 0

Flip(b, n) == b # (n % 2 = 1)

\* The NMI latch when VBlank ends at a position between from and to.
LatchAfter(latch, from, to) == latch /\ ~(from < VBlankLen /\ VBlankLen <= to)

\* No VBlank starts within the n cycles.
SameFrame(p, n) ==
  {[pos      |-> x,
    latch    |-> LatchAfter(p.latch, p.pos, x),
    complete |-> p.complete,
    owed     |-> p.owed] : x \in {p.pos + n} \cap (0 .. FrameMax - 1)}

\* VBlank starts e cycles after the previous one, within the n cycles.
NextFrame(p, n) ==
  {[pos      |-> p.pos + n - e,
    latch    |-> LatchAfter(enabled \/ LatchAfter(p.latch, p.pos, e), 0, p.pos + n - e),
    complete |-> TRUE,
    owed     |-> p.owed + Count(enabled)] :
      e \in {f \in FrameMin .. FrameMax : p.pos < f /\ f <= p.pos + n}}

PpuAfter(p, n) == SameFrame(p, n) \cup NextFrame(p, n)

ApuAfter(a, n) == {[line |-> l, odd |-> Flip(a.odd, n)] : l \in {a.line, TRUE}}

\* The CPU's own count of the cycles an interrupt or a DMA spends.
TotalAfter_NoSequence(o, n) == IF n = IntCycles THEN o ELSE Flip(o, n)
TotalAfter(o, n) == Flip(o, n)

\* Cycles of an OAM DMA that starts now.
DmaCycles == IF odd THEN DmaBase + 1 ELSE DmaBase

\* poll_nmi: the latch is read and cleared.
Polled_Kept(p) == p
Polled(p) == [p EXCEPT !.latch = FALSE]

\* poll_frame_complete: so is the frame-complete flag.
FramePolled(p) == [p EXCEPT !.complete = FALSE]

\* An NMI reaches the handler, through its own sequence or through a BRK.
Delivered(p) == [p EXCEPT !.owed = @ - 1]

-----------------------------------------------------------------------------
\* The state main() hands to the event loop: Nes::new, insert_cartridge, reset.
Init ==
  /\ pc = "boundary" /\ instr = "none" /\ left = 0
  /\ iflag = TRUE /\ delay = FALSE /\ saved = FALSE
  /\ nmi = FALSE /\ irq = FALSE /\ inSeq = FALSE /\ halted = FALSE
  /\ odd = TRUE /\ oam = FALSE /\ enabled = FALSE
  /\ ppu = [pos |-> ResetPos, latch |-> FALSE, complete |-> FALSE, owed |-> 0]
  /\ apu = [line |-> FALSE, odd |-> FALSE]
  /\ ready = FALSE
  /\ taken = {} /\ last = "none" /\ iBefore = TRUE /\ unmasked = FALSE /\ held = 0

\* The pending OAM DMA replaces the instruction.  An NMI is serviced after it; neither
\* the IRQ line nor the frame-complete flag is looked at.
OamDma ==
  /\ pc = "boundary" /\ oam
  /\ oam' = FALSE
  /\ \E p \in PpuAfter(ppu, DmaCycles), a \in ApuAfter(apu, DmaCycles) :
       IF p.latch
         THEN /\ \E q \in PpuAfter(Delivered(Polled(p)), IntCycles) : ppu' = q
              /\ apu' \in ApuAfter(a, IntCycles)
              /\ odd' = TotalAfter(TotalAfter(odd, DmaCycles), IntCycles)
              /\ iflag' = TRUE /\ nmi' = FALSE /\ inSeq' = TRUE
              /\ taken' = {"nmi"}
         ELSE /\ ppu' = Polled(p) /\ apu' = a
              /\ odd' = TotalAfter(odd, DmaCycles)
              /\ taken' = {}
              /\ UNCHANGED <<iflag, nmi, inSeq>>
  /\ UNCHANGED <<pc, instr, left, delay, saved, irq, halted, enabled, ready>>
  /\ UNCHANGED <<last, iBefore, unmasked, held>>

(* One iteration of the loop: the PPU and the APU advance by a cycle, an   *)
(* NMI edge becomes pending in the CPU, and the CPU executes the cycle.    *)

\* tick_cycle with no current instruction: fetch and decode.
Fetch(k) ==
  /\ pc = "boundary" /\ ~oam /\ ~halted
  /\ \E p \in PpuAfter(ppu, 1), a \in ApuAfter(apu, 1) :
       /\ nmi' = (nmi \/ p.latch)
       /\ ppu' = Polled(p) /\ apu' = a
  /\ instr' = k
  /\ left' \in ExecCycles(k)
  /\ halted' = (k = "kil")
  /\ odd' = ~odd
  /\ pc' = "exec"
  /\ taken' = {}
  /\ UNCHANGED <<iflag, delay, saved, irq, inSeq, oam, enabled, ready>>
  /\ UNCHANGED <<last, iBefore, unmasked, held>>

\* A cycle that leaves the instruction unfinished.
Execute ==
  /\ pc = "exec" /\ ~halted /\ left > 1
  /\ ~(instr = "brk" /\ left = BrkVectorCycle)
  /\ \E p \in PpuAfter(ppu, 1), a \in ApuAfter(apu, 1) :
       /\ nmi' = (nmi \/ p.latch)
       /\ ppu' = Polled(p) /\ apu' = a
  /\ left' = left - 1
  /\ odd' = ~odd
  /\ taken' = {}
  /\ UNCHANGED <<pc, instr, iflag, delay, saved, irq, inSeq, halted, oam, enabled, ready>>
  /\ UNCHANGED <<last, iBefore, unmasked, held>>

\* The cycle of BRK that picks the vector: a pending NMI takes the BRK over and is
\* consumed, else an unmasked IRQ does, as it stood at the last instruction boundary.
BrkVector ==
  /\ pc = "exec" /\ ~halted /\ instr = "brk" /\ left = BrkVectorCycle
  /\ \E p \in PpuAfter(ppu, 1), a \in ApuAfter(apu, 1) :
       /\ apu' = a
       /\ ppu' = IF nmi \/ p.latch THEN Delivered(Polled(p)) ELSE Polled(p)
       /\ irq' = (irq /\ (nmi \/ p.latch \/ iflag))
  /\ nmi' = FALSE
  /\ iflag' = TRUE
  /\ left' = left - 1
  /\ odd' = ~odd
  /\ taken' = {}
  /\ UNCHANGED <<pc, instr, delay, saved, inSeq, halted, oam, enabled, ready>>
  /\ UNCHANGED <<last, iBefore, unmasked, held>>

\* The last cycle of an instruction: its effect, and the delay of the IRQ poll that
\* CLI, SEI and PLP ask for with the I flag they found.
Complete ==
  /\ pc = "exec" /\ ~halted /\ left = 1
  /\ \E p \in PpuAfter(ppu, 1), a \in ApuAfter(apu, 1) :
       /\ nmi' = (nmi \/ p.latch)
       /\ ppu' = Polled(p)
       /\ apu' \in IF instr = "ack" THEN {a, [a EXCEPT !.line = FALSE]} ELSE {a}
  /\ iflag' \in IAfter(instr, iflag)
  /\ delay' = DelayAfter(instr)
  /\ saved' = IF instr \in Delaying THEN iflag ELSE saved
  /\ oam' = (oam \/ instr = "dma")
  /\ enabled' \in IF instr = "ctrl" THEN BOOLEAN ELSE {enabled}
  /\ inSeq' = FALSE
  /\ instr' = "none" /\ left' = 0
  /\ odd' = ~odd
  /\ pc' = "service"
  /\ last' = instr /\ iBefore' = iflag /\ taken' = {}
  /\ unmasked' = (unmasked \/ ~iflag')
  /\ UNCHANGED <<irq, halted, ready, held>>

\* A jammed CPU reports its instruction complete every cycle and counts none of them.
Jammed ==
  /\ pc \in {"boundary", "exec"} /\ halted
  /\ pc = "boundary" => ~oam
  /\ \E p \in PpuAfter(ppu, 1), a \in ApuAfter(apu, 1) :
       /\ nmi' = (nmi \/ p.latch)
       /\ ppu' = Polled(p) /\ apu' = a
  /\ pc' = "service"
  /\ taken' = {}
  /\ UNCHANGED <<instr, left, iflag, delay, saved, irq, inSeq, halted, odd, oam, enabled, ready>>
  /\ UNCHANGED <<last, iBefore, unmasked, held>>

-----------------------------------------------------------------------------
\* The mask the IRQ poll of Service sees: an NMI serviced just before has set I.
PollMask == MaskSeen(delay, saved, iflag \/ nmi)

\* After the loop: a pending NMI is serviced, then the IRQ line is sampled and serviced
\* unless masked, then the frame-complete flag is polled.
Service ==
  /\ pc = "service"
  /\ \E p \in IF nmi THEN PpuAfter(Delivered(ppu), IntCycles) ELSE {ppu},
        a \in IF nmi THEN ApuAfter(apu, IntCycles) ELSE {apu} :
       LET take == a.line /\ ~PollMask
       IN  \E q \in IF take THEN PpuAfter(p, IntCycles) ELSE {p} :
             /\ ppu' = FramePolled(q)
             /\ apu' \in IF take THEN ApuAfter(a, IntCycles) ELSE {a}
             /\ ready' = (ready \/ q.complete)
             /\ irq' = (a.line /\ ~take)
             /\ iflag' = (iflag \/ nmi \/ take)
             /\ inSeq' = (inSeq \/ nmi \/ take)
             /\ odd' = LET o == IF nmi THEN TotalAfter(odd, IntCycles) ELSE odd
                       IN  IF take THEN TotalAfter(o, IntCycles) ELSE o
             /\ taken' = {i \in {"nmi", "irq"} : IF i = "nmi" THEN nmi ELSE take}
             /\ held' = IF a.line /\ ~take /\ ~iflag /\ ~nmi /\ ~halted THEN held + 1 ELSE 0
  /\ nmi' = FALSE
  /\ pc' = "boundary"
  /\ UNCHANGED <<instr, left, delay, saved, halted, oam, enabled, last, iBefore, unmasked>>

\* Nes::reset, between two calls of run_cpu_tick.  The delay flag and a pending OAM DMA stay.
Reset ==
  /\ pc = "boundary"
  /\ instr' = "none" /\ left' = 0
  /\ iflag' = TRUE /\ nmi' = FALSE /\ irq' = FALSE /\ inSeq' = FALSE /\ halted' = FALSE
  /\ odd' = TRUE
  /\ enabled' = FALSE
  /\ ppu' = [pos |-> ResetPos, latch |-> FALSE, complete |-> FALSE, owed |-> 0]
  /\ apu' = [line |-> FALSE, odd |-> FALSE]
  /\ ready' = FALSE
  /\ taken' = {} /\ last' = "none" /\ unmasked' = FALSE /\ held' = 0
  /\ UNCHANGED <<pc, delay, saved, oam, iBefore>>

Step == OamDma \/ (\E k \in Classes : Fetch(k)) \/ Execute \/ BrkVector \/ Complete
          \/ Jammed \/ Service

Next == Step \/ Reset

Spec == Init /\ [][Next]_vars

-----------------------------------------------------------------------------
(* Properties.  A definition X_Y above X is X with the fault Y: the runs   *)
(* must tell the two apart.                                                *)

\* The variables keep their types.
TypeOK ==
  /\ pc \in {"boundary", "exec", "service"}
  /\ instr \in Classes \cup {"none"} /\ left \in 0 .. MaxCycles - 1
  /\ iflag \in BOOLEAN /\ delay \in BOOLEAN /\ saved \in BOOLEAN
  /\ nmi \in BOOLEAN /\ irq \in BOOLEAN /\ inSeq \in BOOLEAN /\ halted \in BOOLEAN
  /\ odd \in BOOLEAN /\ oam \in BOOLEAN /\ enabled \in BOOLEAN /\ ready \in BOOLEAN
  /\ ppu \in [pos : 0 .. FrameMax - 1, latch : BOOLEAN, complete : BOOLEAN, owed : Nat]
  /\ apu \in [line : BOOLEAN, odd : BOOLEAN]
  /\ taken \subseteq {"nmi", "irq"} /\ last \in Classes \cup {"none"}
  /\ iBefore \in BOOLEAN /\ unmasked \in BOOLEAN /\ held \in Nat

\* Every VBlank that starts with NMIs enabled is delivered exactly once: what is still owed
\* is one edge in the PPU's latch or one pending in the CPU, never both.  A VBlank edge may
\* arrive during a DMA, during another interrupt's cycles or inside a BRK.
NmiExactlyOnce ==
  /\ ppu.owed = Count(ppu.latch) + Count(nmi)
  /\ ppu.owed <= 1

\* The CPU's cycle counter, which decides how long a DMA takes and how a reset times the
\* frame counter, and the APU's, which decides the phase of the timers, never drift apart
\* while the CPU runs: whatever spends cycles spends them on both.
CyclesInLockstep == ~halted => odd # apu.odd

\* An OAM DMA ends on the same cycle parity whichever one it starts on.
DmaEndsAligned == [][OamDma => odd' # ("nmi" \in taken')]_vars

\* A running CPU services an IRQ only if I was clear at the instruction boundary, or was clear before
\* the CLI, SEI or PLP that just completed, whose change to I is not polled yet.
IrqOnlyUnmasked ==
  [][(Service /\ ~halted /\ "irq" \in taken') =>
        IF last \in Delaying THEN ~iBefore ELSE ~iflag /\ ~nmi]_vars

\* From a reset until an instruction clears I a running CPU services no IRQ, whatever the
\* program left in the CPU's delay flag, which a reset does not clear.
ResetMasksIrq == "irq" \in taken /\ ~halted => unmasked

\* While the CPU runs with I clear, an asserted IRQ waits for at most one more instruction.
IrqLatency == held <= 1
=============================================================================

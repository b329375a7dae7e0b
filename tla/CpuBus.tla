-------------------------------- MODULE CpuBus --------------------------------
(*****************************************************************************)
(* The CPU cycle by cycle: `Cpu2::tick_cycle` fetches and decodes an opcode   *)
(* in one cycle and, in each later one, ticks `Instruction`, which runs an    *)
(* addressing mode to its end and then an instruction type.  The first tick   *)
(* of the type shares the cycle of the last tick of the mode; every count of  *)
(* cycles rests on that overlap.                                              *)
(*                                                                           *)
(* What an instruction is for the rest of the machine is what it does on the  *)
(* bus, for a read of a PPU, APU or cartridge register has effects.  Memory   *)
(* is not modelled: a read returns any byte.  Registers and flags other than  *)
(* pc and sp are not modelled either: an index register, a register used as a *)
(* mask and the condition of a branch are arbitrary (module Alu has them).    *)
(*                                                                           *)
(* Bytes have B values instead of 256 and addresses B * B; page 0 is the zero *)
(* page, page 1 the stack, the three vectors are the last six addresses, and  *)
(* everything above page 1 may be a register that a read disturbs.            *)
(*****************************************************************************)
EXTENDS FirstCpu

CONSTANTS Code,     \* bound: the addresses at which programs have instructions
          Program,  \* the opcodes programs have there
          Indices   \* bound: the values of index registers

ASSUME ProgramAssumption == Program \subseteq 0..255 /\ Code \subseteq 0..(B * B - 1)
                            /\ Indices \subseteq 0..(B - 1)

Address == 0..(B * B - 1)

NmiVector == B * B - 6
ResetVector == B * B - 4
IrqVector == B * B - 2

VARIABLES cpu,    \* pc, sp, halted, and whether an instruction is running
          ins,    \* the instruction running or run last: opcode, mode and type state
          trace   \* its accesses, one sequence of them for each cycle (history)
busVars == <<cpu, ins, trace>>

NoOpcode == -1

\* The registers an instruction finds: the one its mode adds, and the one that is
\* loaded into sp, masks it, or is stored masked by a page (TXS, LAR; XAS, SXA, SYA, AXA).
Decoded(o, x, m) ==
  [op |-> o, from |-> cpu.pc, sp |-> cpu.sp, index |-> x, mask |-> m,
   ac |-> 0, pointer |-> 0, base |-> 0, addr |-> 0, crossed |-> FALSE,
   ic |-> 0, taken |-> FALSE, far |-> FALSE, word |-> 0]

BusInit ==
  /\ cpu \in [pc : Code, sp : Byte, halted : {FALSE}, busy : {FALSE}]
  /\ ins = Decoded(NoOpcode, 0, 0)
  /\ trace = <<>>

(*****************************************************************************)
(* Accesses.  A read names the address and the byte the CPU uses of it (0     *)
(* when it drops it or hands it to the ALU), a write what is written.         *)
(*****************************************************************************)
Read(a, b) == <<"R", a, b>>

(*****************************************************************************)
(* Addressing modes: s is the CPU and the instruction in one cycle, with the  *)
(* accesses of the cycle in io; b the byte that a read returns.               *)
(*****************************************************************************)
State == [pc |-> cpu.pc, sp |-> cpu.sp, i |-> ins, io |-> <<>>]

Also(s, access) == [s EXCEPT !.io = Append(@, access)]
Advance(s) == [s EXCEPT !.pc = Plus(@, 1)]
AcDone(s) == [s EXCEPT !.i.ac = @ + 1]

\* The next byte of the program.
Operand(s, b) == Advance(Also(s, Read(s.pc, b)))

Reads(s) == Access(s.i.op) \in {"R", "M", "-"}

ImpliedDone(s) == TRUE

ImmediateTick(s, b) == AcDone(Advance(Also(s, Peek(s.pc))))

FetchLow(s, b) == [Operand(s, b) EXCEPT !.i.addr = b]
FetchHigh(s, b) == [Operand(s, b) EXCEPT !.i.addr = @ + B * b]
ReadTarget(s) == IF Reads(s) THEN Also(s, Peek(s.i.addr)) ELSE s

ZeroPageTick(s, b) ==
  AcDone(CASE s.i.ac = 0 -> FetchLow(s, b)
           [] s.i.ac = 1 -> ReadTarget(s))

\* The cycle that adds the index does not use the bus.
ZeroPageXTick(s, b) ==
  AcDone(CASE s.i.ac = 0 -> FetchLow(s, b)
           [] s.i.ac = 1 -> [s EXCEPT !.i.addr = (@ + s.i.index) % B]
           [] s.i.ac = 2 -> ReadTarget(s))

ZeroPageYTick(s, b) ==
  AcDone(CASE s.i.ac = 0 -> FetchLow(s, b)
           [] s.i.ac = 1 -> [s EXCEPT !.i.addr = (@ + s.i.index) % B]
           [] s.i.ac = 2 -> ReadTarget(s))

AbsoluteDone(s) == s.i.ac = IF Access(s.i.op) = "J" THEN 2 ELSE 3
AbsoluteTick(s, b) ==
  AcDone(CASE s.i.ac = 0 -> FetchLow(s, b)
           [] s.i.ac = 1 -> FetchHigh(s, b)
           [] s.i.ac = 2 -> ReadTarget(s))

\* The target is base + index; until the carry is in, the page is still the base's.
Indexed(s, base) ==
  LET a == Plus(base, s.i.index)
  IN  [s EXCEPT !.i.base = base, !.i.addr = a, !.i.crossed = Page(a) # Page(base)]

Uncarried(s) == B * Page(s.i.base) + Low(s.i.addr)
ReadIndexed(s) == IF Access(s.i.op) = "R" /\ ~s.i.crossed
                  THEN ReadTarget(s) ELSE Also(s, Peek(Uncarried(s)))

IndexedDone(s, n) == \/ s.i.ac = n + 1
                     \/ s.i.ac = n /\ Access(s.i.op) = "R" /\ ~s.i.crossed

AbsoluteXTick(s, b) ==
  AcDone(CASE s.i.ac = 0 -> FetchLow(s, b)
           [] s.i.ac = 1 -> Indexed(Operand(s, b), s.i.addr + B * b)
           [] s.i.ac = 2 -> ReadIndexed(s)
           [] s.i.ac = 3 -> ReadTarget(s))

AbsoluteYTick(s, b) ==
  AcDone(CASE s.i.ac = 0 -> FetchLow(s, b)
           [] s.i.ac = 1 -> Indexed(Operand(s, b), s.i.addr + B * b)
           [] s.i.ac = 2 -> ReadIndexed(s)
           [] s.i.ac = 3 -> ReadTarget(s))

\* JMP (pointer): the high byte comes from the page of the low one.
IndirectTick(s, b) ==
  LET p == s.i.pointer
      high == IF Low(p) = B - 1 THEN B * Page(p) ELSE Plus(p, 1)
  IN  AcDone(CASE s.i.ac = 0 -> [Operand(s, b) EXCEPT !.i.pointer = b]
               [] s.i.ac = 1 -> [Operand(s, b) EXCEPT !.i.pointer = @ + B * b]
               [] s.i.ac = 2 -> [Also(s, Read(p, b)) EXCEPT !.i.addr = b]
               [] s.i.ac = 3 -> [Also(s, Read(high, b)) EXCEPT !.i.addr = @ + B * b])

\* (base,X): the dummy read is at the indexed address, the pointer wraps in page 0.
IndexedIndirectTick(s, b) ==
  LET p == s.i.pointer
  IN  AcDone(CASE s.i.ac = 0 -> [Operand(s, b) EXCEPT !.i.pointer = (b + s.i.index) % B]
               [] s.i.ac = 1 -> Also(s, Peek(p))
               [] s.i.ac = 2 -> [Also(s, Read(p, b)) EXCEPT !.i.addr = b]
               [] s.i.ac = 3 -> [Also(s, Read(Up(p), b)) EXCEPT !.i.addr = @ + B * b]
               [] s.i.ac = 4 -> ReadTarget(s))

\* (pointer),Y
IndirectIndexedTick(s, b) ==
  LET p == s.i.pointer
  IN  AcDone(CASE s.i.ac = 0 -> [Operand(s, b) EXCEPT !.i.pointer = b]
               [] s.i.ac = 1 -> [Also(s, Read(p, b)) EXCEPT !.i.base = b]
               [] s.i.ac = 2 -> [Also(s, Read(Up(p), b)) EXCEPT !.i.base = @ + B * b]
               [] s.i.ac = 3 -> ReadIndexed(Indexed(s, s.i.base))
               [] s.i.ac = 4 -> ReadTarget(s))

RelativeTick(s, b) ==
  LET t == Operand(s, b)
  IN  AcDone([t EXCEPT !.i.addr = (t.pc + B * B + Signed(b)) % (B * B)])

ModeDone(s) ==
  LET m == Mode(s.i.op)
  IN  CASE m = "imp" -> ImpliedDone(s)
        [] m \in {"imm", "rel"} -> s.i.ac = 1
        [] m = "zp" -> s.i.ac = 2
        [] m \in {"zpx", "zpy"} -> s.i.ac = 3
        [] m = "abs" -> AbsoluteDone(s)
        [] m \in {"absx", "absy"} -> IndexedDone(s, 3)
        [] m = "ind" -> s.i.ac = 4
        [] m = "indx" -> s.i.ac = 5
        [] m = "indy" -> IndexedDone(s, 4)

ModeTick(s, b) ==
  LET m == Mode(s.i.op)
  IN  CASE m = "imm" -> ImmediateTick(s, b)
        [] m = "zp" -> ZeroPageTick(s, b)
        [] m = "zpx" -> ZeroPageXTick(s, b)
        [] m = "zpy" -> ZeroPageYTick(s, b)
        [] m = "abs" -> AbsoluteTick(s, b)
        [] m = "absx" -> AbsoluteXTick(s, b)
        [] m = "absy" -> AbsoluteYTick(s, b)
        [] m = "ind" -> IndirectTick(s, b)
        [] m = "indx" -> IndexedIndirectTick(s, b)
        [] m = "indy" -> IndirectIndexedTick(s, b)
        [] m = "rel" -> RelativeTick(s, b)

(*****************************************************************************)
(* Instruction types: t is the state after a tick, a set where flags and      *)
(* interrupt lines that are not modelled decide.                              *)
(*****************************************************************************)
IcDone(s) == [s EXCEPT !.i.ic = @ + 1]
Push(s, v) == [Also(s, Write(Stack(s.sp), v)) EXCEPT !.sp = Down(@)]
Pull(s, b) == Also(s, Read(Stack(s.sp), b))
SpUp(s) == [s EXCEPT !.sp = Up(@)]

Rotates == {"Ror", "Rra"}
Modifies == {"Asl", "Lsr", "Rol", "Inc", "Dec", "Slo", "Sre", "Rla", "Dcp", "Isb"} \cup Rotates
Stores == {"Sta", "Stx", "Sty", "Sax"}
UnstableStores == {"Sxa", "Sya", "Xas", "Axa"}
Branches == {"Bpl", "Bmi", "Bne", "Beq", "Bcc", "Bcs", "Bvc", "Bvs"}

ModifyTick_Swapped(s) ==
  CASE s.i.ic = 0 -> IF Type(s.i.op) \in Rotates THEN Also(s, Peek(s.i.addr)) ELSE s
    [] s.i.ic = 1 -> Also(s, Write(s.i.addr, New))
    [] s.i.ic = 2 -> Also(s, Write(s.i.addr, Old))

\* ROR and RRA read their operand themselves, after the mode did, in the same cycle.
ModifyTick(s) ==
  CASE s.i.ic = 0 -> IF Type(s.i.op) \in Rotates THEN Also(s, Peek(s.i.addr)) ELSE s
    [] s.i.ic = 1 -> Also(s, Write(s.i.addr, Old))
    [] s.i.ic = 2 -> Also(s, Write(s.i.addr, New))

StoreTick(s) == Also(s, Write(s.i.addr, Reg))

\* SXA, SYA, XAS, AXA store a register masked by the page after the base's; across pages all
\* but AXA mask the page written to as well.
Stored(s) == BitAnd(s.i.mask, (Page(s.i.base) + 1) % B)
MaskedPage(s) == IF s.i.crossed THEN BitAnd(Page(s.i.addr), s.i.mask) ELSE Page(s.i.addr)
SxaTick(s) == Also(s, Write(B * MaskedPage(s) + Low(s.i.addr), Stored(s)))
SyaTick(s) == SxaTick(s)
XasTick(s) == [SxaTick(s) EXCEPT !.sp = s.i.mask]
AxaTick(s) == Also(s, Write(s.i.addr, Stored(s)))

\* What they access, their mode has accessed.
NopTick(s) == s
DopTick(s) == s
TopTick(s) == s

BranchTicks(s) ==
  IF s.i.ic = 0
  THEN {s, [s EXCEPT !.i.taken = TRUE, !.i.far = Page(s.pc) # Page(s.i.addr), !.pc = s.i.addr]}
  ELSE {s}
BranchDone(i) == i.ic = IF ~i.taken THEN 1 ELSE IF ~i.far THEN 2 ELSE 3

JmpTick(s) == [s EXCEPT !.pc = s.i.addr]

\* JSR fetches its own operand around the pushes; pc is then at the second byte of it.
JsrTick(s, b) ==
  CASE s.i.ic = 0 -> [Operand(s, b) EXCEPT !.i.word = b]
    [] s.i.ic = 1 -> s
    [] s.i.ic = 2 -> Push(s, Page(s.pc))
    [] s.i.ic = 3 -> Push(s, Low(s.pc))
    [] s.i.ic = 4 -> [Also(s, Read(s.pc, b)) EXCEPT !.pc = s.i.word + B * b]

RtsTick_NoIncrement(s, b) ==
  CASE s.i.ic = 0 -> Also(s, Peek(s.pc))
    [] s.i.ic = 1 -> SpUp(s)
    [] s.i.ic = 2 -> SpUp([Pull(s, b) EXCEPT !.pc = B * Page(@) + b])
    [] s.i.ic = 3 -> [Pull(s, b) EXCEPT !.pc = B * b + Low(@)]
    [] s.i.ic = 4 -> s

RtsTick(s, b) ==
  CASE s.i.ic = 0 -> Also(s, Peek(s.pc))
    [] s.i.ic = 1 -> SpUp(s)
    [] s.i.ic = 2 -> SpUp([Pull(s, b) EXCEPT !.pc = B * Page(@) + b])
    [] s.i.ic = 3 -> [Pull(s, b) EXCEPT !.pc = B * b + Low(@)]
    [] s.i.ic = 4 -> Advance(s)

RtiTick(s, b) ==
  CASE s.i.ic = 0 -> Also(s, Peek(s.pc))
    [] s.i.ic = 1 -> SpUp(s)
    [] s.i.ic = 2 -> SpUp(Pull(s, 0))
    [] s.i.ic = 3 -> SpUp([Pull(s, b) EXCEPT !.i.word = b])
    [] s.i.ic = 4 -> [Pull(s, b) EXCEPT !.pc = B * b + s.i.word]

\* BRK: a pending NMI or IRQ takes it over when the vector is chosen, and the IRQ
\* clears the B flag of the status byte that is on the stack already.
BrkTicks(s, b) ==
  CASE s.i.ic = 0 -> {[Advance(Also(s, Peek(s.pc))) EXCEPT !.i.word = Plus(s.pc, 1)]}
    [] s.i.ic = 1 -> {Push(s, Page(s.i.word))}
    [] s.i.ic = 2 -> {Push(s, Low(s.i.word))}
    [] s.i.ic = 3 -> {Push(s, Reg)}
    [] s.i.ic = 4 ->
         LET flag == Stack(Up(s.sp))
             cleared == Also(Also(s, Peek(flag)), Write(flag, Reg))
             Load(t, vector) == [Also(t, Read(vector, b)) EXCEPT !.pc = b, !.i.base = vector]
         IN  {Load(s, NmiVector), Load(cleared, IrqVector), Load(s, IrqVector)}
    [] s.i.ic = 5 -> {[Also(s, Read(s.i.base + 1, b)) EXCEPT !.pc = @ + B * b]}

PhpTick(s) == IF s.i.ic = 0 THEN s ELSE Push(s, Reg)
PhaTick(s) == IF s.i.ic = 0 THEN Also(s, Peek(s.pc)) ELSE Push(s, Reg)

PlpTick(s) == CASE s.i.ic = 0 -> Also(s, Peek(Stack(s.sp)))
                [] s.i.ic = 1 -> SpUp(s)
                [] s.i.ic = 2 -> Pull(s, 0)
PlaTick(s) == CASE s.i.ic = 0 -> Also(s, Peek(s.pc))
                [] s.i.ic = 1 -> SpUp(s)
                [] s.i.ic = 2 -> Pull(s, 0)

\* LAR masks sp with memory, TXS loads it.
LarTick(s) == [s EXCEPT !.sp = BitAnd(@, s.i.mask)]
TxsTick(s) == [s EXCEPT !.sp = s.i.mask]

\* KIL never completes.
KilDone == FALSE

TypeDone(i) ==
  LET t == Type(i.op)
  IN  CASE t \in Branches -> BranchDone(i)
        [] t \in Modifies \cup {"Plp", "Pla"} -> i.ic = 3
        [] t \in {"Php", "Pha"} -> i.ic = 2
        [] t \in {"Jsr", "Rts", "Rti"} -> i.ic = 5
        [] t = "Brk" -> i.ic = 6
        [] t = "Kil" -> KilDone
        [] OTHER -> i.ic = 1

\* Every other type works on registers and the byte the mode has read.
TypeEffects(s, b) ==
  LET t == Type(s.i.op)
  IN  CASE t \in Modifies -> {ModifyTick(s)}
        [] t \in Stores -> {StoreTick(s)}
        [] t = "Sxa" -> {SxaTick(s)}
        [] t = "Sya" -> {SyaTick(s)}
        [] t = "Xas" -> {XasTick(s)}
        [] t = "Axa" -> {AxaTick(s)}
        [] t = "Nop" -> {NopTick(s)}
        [] t = "Dop" -> {DopTick(s)}
        [] t = "Top" -> {TopTick(s)}
        [] t \in Branches -> BranchTicks(s)
        [] t = "Jmp" -> {JmpTick(s)}
        [] t = "Jsr" -> {JsrTick(s, b)}
        [] t = "Rts" -> {RtsTick(s, b)}
        [] t = "Rti" -> {RtiTick(s, b)}
        [] t = "Brk" -> BrkTicks(s, b)
        [] t = "Php" -> {PhpTick(s)}
        [] t = "Pha" -> {PhaTick(s)}
        [] t = "Plp" -> {PlpTick(s)}
        [] t = "Pla" -> {PlaTick(s)}
        [] t = "Lar" -> {LarTick(s)}
        [] t = "Txs" -> {TxsTick(s)}
        [] OTHER -> {s}

TypeTicks(s, b) == {IcDone(u) : u \in TypeEffects(s, b)}

(*****************************************************************************)
(* Instruction::tick and Cpu2::tick_cycle                                     *)
(*****************************************************************************)
InstructionTicks_NoOverlap(s, b) ==
  IF ModeDone(s) THEN TypeTicks(s, b) ELSE {ModeTick(s, b)}

InstructionTicks(s, b) ==
  LET m == IF ModeDone(s) THEN s ELSE ModeTick(s, b)
  IN  IF ModeDone(m) THEN TypeTicks(m, b) ELSE {m}

InstructionDone(s) == ModeDone(s) /\ TypeDone(s.i)

IndexedModes == {"zpx", "zpy", "absx", "absy", "indx", "indy"}
MaskingTypes == UnstableStores \cup {"Lar", "Txs"}
Found(kind, kinds) == IF kind \in kinds THEN Indices ELSE {0}

\* The cycle that reads and decodes the opcode; KIL halts the CPU in it.
FetchOpcode(o) ==
  /\ ~cpu.busy /\ ~cpu.halted
  /\ cpu.pc \in Code
  /\ \E x \in Found(Mode(o), IndexedModes), m \in Found(Type(o), MaskingTypes) :
       ins' = Decoded(o, x, m)
  /\ cpu' = [cpu EXCEPT !.pc = Plus(@, 1), !.busy = TRUE, !.halted = Type(o) = "Kil"]
  /\ trace' = <<<<Peek(cpu.pc)>>>>

\* Any later cycle of the instruction.
Tick(b) ==
  /\ cpu.busy /\ ~cpu.halted
  /\ \E s \in InstructionTicks(State, b) :
       /\ cpu' = [cpu EXCEPT !.pc = s.pc, !.sp = s.sp, !.busy = ~InstructionDone(s)]
       /\ ins' = s.i
       /\ trace' = Append(trace, s.io)

\* trigger_nmi and trigger_irq, between two instructions or when KIL has halted the CPU.
Interrupt(vector, low, high) ==
  LET s == Push(Push(Push(State, Page(cpu.pc)), Low(cpu.pc)), Reg)
  IN  /\ ~cpu.busy \/ cpu.halted
      /\ cpu' = [cpu EXCEPT !.pc = low + B * high, !.sp = s.sp]
      /\ ins' = Decoded(NoOpcode, 0, 0)
      /\ trace' = <<s.io \o <<Read(vector, low), Read(vector + 1, high)>>>>

Nmi(low, high) == Interrupt(NmiVector, low, high)
Irq(low, high) == Interrupt(IrqVector, low, high)

\* `reset` comes between two cycles and drops the instruction that is running.
ResetCpu(low, high) ==
  LET sp1 == Down(cpu.sp)
      sp2 == Down(sp1)
  IN  /\ cpu' = [pc |-> low + B * high, sp |-> Down(sp2), halted |-> FALSE, busy |-> FALSE]
      /\ ins' = Decoded(NoOpcode, 0, 0)
      /\ trace' = <<<<Peek(Stack(cpu.sp)), Peek(Stack(sp1)), Peek(Stack(sp2)),
                      Read(ResetVector, low), Read(ResetVector + 1, high)>>>>

\* The vectors lead to programs.
BusNext ==
  \/ \E o \in Program : FetchOpcode(o)
  \/ \E b \in Byte : Tick(b)
  \/ \E a \in Code : Nmi(Low(a), Page(a)) \/ Irq(Low(a), Page(a)) \/ ResetCpu(Low(a), Page(a))

BusSpec == BusInit /\ [][BusNext]_busVars

(*****************************************************************************)
(* The first CPU (module FirstCpu), given the registers the instruction has   *)
(* found and the bytes it has read, once the instruction has run.             *)
(*****************************************************************************)
Completed == ~cpu.busy /\ ins.op # NoOpcode
Cycles == Len(trace)
ByteRead(c) == trace[c][1][3]

OperandRead == CASE Type(ins.op) = "Jsr" -> <<ByteRead(2), ByteRead(6)>>
                 [] Type(ins.op) # "Jsr" /\ Bytes(ins.op) = 3 -> <<ByteRead(2), ByteRead(3)>>
                 [] Bytes(ins.op) = 2 -> <<ByteRead(2)>>
                 [] OTHER -> <<>>
PointerRead == CASE Mode(ins.op) \in {"indx", "ind"} \/ Type(ins.op) = "Rts" ->
                      <<ByteRead(4), ByteRead(5)>>
                 [] Mode(ins.op) = "indy" -> <<ByteRead(3), ByteRead(4)>>
                 [] Type(ins.op) = "Rti" -> <<ByteRead(5), ByteRead(6)>>
                 [] Type(ins.op) = "Brk" -> <<Last(trace[6])[3], ByteRead(7)>>
                 [] OTHER -> <<>>

Given == [op |-> ins.op, pc |-> ins.from, sp |-> ins.sp, index |-> ins.index, mask |-> ins.mask,
          o |-> OperandRead, p |-> PointerRead, taken |-> ins.taken, nmi |-> ins.base = NmiVector]

\* An instruction takes the cycles of the first CPU: those the table has for its opcode,
\* one more where an index crosses a page on the way to a read, and for a branch one if it
\* is taken and another if it leaves the page.  No count is written down in the new CPU: it
\* results from an addressing mode, an instruction type and the cycle they share.
CyclesAsFirst == Completed => \A in \in {Given} : Cycles = Len(TickCycles(in))

\* Control goes on where the first CPU goes on, with the stack it leaves: behind the
\* instruction, or where its operand, the stack or a vector says; and the same opcodes halt.
NextAsFirst ==
  /\ Completed => \A in \in {Given} : \A first \in {RunOpcode(in)} :
                    cpu.pc = first.pc /\ cpu.sp = first.sp
  /\ ins.op # NoOpcode => (cpu.halted <=> Halts(ins.op))

\* Where the new CPU does otherwise: it reads no opcode twice, as the first one does of all but BRK
\* and the branches; ROR and RRA read their target twice, TOP reads it, the stack instructions read
\* once before they use it and BRK once less behind its opcode.
HasTarget == Mode(ins.op) \in {"zp", "zpx", "zpy", "abs", "absx", "absy", "indx", "indy"}
             /\ Type(ins.op) # "Jmp"
Expected(in, all) ==
  LET t == Type(ins.op)
      io == IF t \in Branches \cup {"Brk"} THEN all ELSE Tail(all)
      Inserted(n, access) == InsertAt(io, n, access)
  IN  CASE t \in Rotates -> Inserted(Len(io) - 1, io[Len(io) - 2])
        [] t = "Top" /\ Mode(ins.op) = "abs" -> Append(io, Peek(Target(in)))
        [] t \in {"Pha", "Pla"} -> Inserted(2, Peek(Plus(ins.from, 1)))
        [] t = "Plp" -> Inserted(2, Peek(Stack(ins.sp)))
        [] t = "Brk" -> RemoveAt(io, 3)
        [] OTHER -> io

\* XAS and AXA across a page: the first CPU does not mask the page, and takes another page.
Unstable(in) == Type(ins.op) \in {"Xas", "Axa"} /\ Crosses(in)

\* The accesses above the zero page, and those that were made, bytes read left out.
Noticed(io, kind) == SelectSeq(io, LAMBDA a : Page(a[2]) >= 1 /\ a[1] \in kind)

Made ==
  LET Bare(a) == IF a[1] = "R" THEN Peek(a[2]) ELSE a
  IN  FlattenSeq([c \in DOMAIN trace |-> [k \in DOMAIN trace[c] |-> Bare(trace[c][k])]])

\* An IRQ that takes BRK over reads and rewrites the status byte on the stack.
Rewritten(io) ==
  LET flag == Stack(Up(cpu.sp)) IN SubSeq(io, 1, 5) \o <<Peek(flag), Write(flag, Reg)>> \o SubSeq(io, 6, 7)

\* Registers above the zero page notice every access: an instruction makes there the accesses
\* of the first CPU in their order, wrong addresses that an index is carried over included,
\* and no others, but for the differences that Expected, Rewritten and Unstable name; one in each
\* cycle, the last one, of a target, in the last cycle.  (Neither CPU reads the byte behind an
\* opcode without operand, although the comment on the implied mode has it read and dropped.)
AccessesAsFirst ==
  Completed => \A in \in {Given} : \A first \in {FlattenSeq(TickCycles(in))} :
               \A made \in {Made}, expected \in {Expected(in, first)} :
    LET t == Type(ins.op)
        Same(kind) == Noticed(made, kind) = Noticed(expected, kind)
    IN  /\ CASE Unstable(in) -> Same({"R"}) /\ Len(Noticed(made, {"W"})) <= 1
             [] t = "Jsr" -> Same({"R"}) /\ Same({"W"})
             [] t = "Brk" -> Noticed(made, {"R", "W"}) \in
                               {Noticed(io, {"R", "W"}) : io \in {expected, Rewritten(expected)}}
             [] OTHER -> Same({"R", "W"})
        /\ t \notin Rotates \cup {"Brk"} =>
             \A c \in 1 .. Cycles : Len(Noticed(trace[c], {"R", "W"})) <= 1
        /\ HasTarget => trace[Cycles] # <<>>

================================================================================

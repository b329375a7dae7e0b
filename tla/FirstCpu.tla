------------------------------- MODULE FirstCpu -------------------------------
(***************************************************************************)
(* The repository's first CPU.  `run_opcode` executes an instruction at    *)
(* once, in the arm that matches its opcode, and returns its cycles;       *)
(* `tick_cycle` counts them off, and spreads BRK and the branches over     *)
(* them.  main runs the second CPU (module CpuBus), written to do the same *)
(* cycle by cycle; here the first one says what the same is.               *)
(*                                                                         *)
(* in is what an instruction finds: op, pc and sp; the index and the mask  *)
(* its registers are; o, the bytes of its operand; p, the two bytes of the *)
(* pointer, vector or return address it reads; whether its branch is taken *)
(* and whether an NMI is pending.                                          *)
(***************************************************************************)
EXTENDS Bytes, Opcodes, SequencesExt

(***************************************************************************)
(* The constants of opcode.rs in the order of their values: the mnemonic   *)
(* and the addressing mode by which the match on opcodes knows each.       *)
(***************************************************************************)
Codes0 == <<
  <<"BRK","imp">>, <<"ORA","indx">>, <<"KIL","imp">>, <<"SLO","indx">>, <<"DOP","zp">>, <<"ORA","zp">>,
  <<"ASL","zp">>, <<"SLO","zp">>, <<"PHP","imp">>, <<"ORA","imm">>, <<"ASL","acc">>, <<"AAC","imm">>,
  <<"TOP","abs">>, <<"ORA","abs">>, <<"ASL","abs">>, <<"SLO","abs">>>>

Codes1 == <<
  <<"BPL","imp">>, <<"ORA","indy">>, <<"KIL","imp">>, <<"SLO","indy">>, <<"DOP","zpx">>, <<"ORA","zpx">>,
  <<"ASL","zpx">>, <<"SLO","zpx">>, <<"CLC","imp">>, <<"ORA","absy">>, <<"NOP","imp">>, <<"SLO","absy">>,
  <<"TOP","absx">>, <<"ORA","absx">>, <<"ASL","absx">>, <<"SLO","absx">>>>

Codes2 == <<
  <<"JSR","imp">>, <<"AND","indx">>, <<"KIL","imp">>, <<"RLA","indx">>, <<"BIT","zp">>, <<"AND","zp">>,
  <<"ROL","zp">>, <<"RLA","zp">>, <<"PLP","imp">>, <<"AND","imm">>, <<"ROL","acc">>, <<"AAC","imm">>,
  <<"BIT","abs">>, <<"AND","abs">>, <<"ROL","abs">>, <<"RLA","abs">>>>

Codes3 == <<
  <<"BMI","imp">>, <<"AND","indy">>, <<"KIL","imp">>, <<"RLA","indy">>, <<"DOP","zpx">>, <<"AND","zpx">>,
  <<"ROL","zpx">>, <<"RLA","zpx">>, <<"SEC","imp">>, <<"AND","absy">>, <<"NOP","imp">>, <<"RLA","absy">>,
  <<"TOP","absx">>, <<"AND","absx">>, <<"ROL","absx">>, <<"RLA","absx">>>>

Codes4 == <<
  <<"RTI","imp">>, <<"EOR","indx">>, <<"KIL","imp">>, <<"SRE","indx">>, <<"DOP","zp">>, <<"EOR","zp">>,
  <<"LSR","zp">>, <<"SRE","zp">>, <<"PHA","imp">>, <<"EOR","imm">>, <<"LSR","acc">>, <<"ASR","imm">>,
  <<"JMP","abs">>, <<"EOR","abs">>, <<"LSR","abs">>, <<"SRE","abs">>>>

Codes5 == <<
  <<"BVC","imp">>, <<"EOR","indy">>, <<"KIL","imp">>, <<"SRE","indy">>, <<"DOP","zpx">>, <<"EOR","zpx">>,
  <<"LSR","zpx">>, <<"SRE","zpx">>, <<"CLI","imp">>, <<"EOR","absy">>, <<"NOP","imp">>, <<"SRE","absy">>,
  <<"TOP","absx">>, <<"EOR","absx">>, <<"LSR","absx">>, <<"SRE","absx">>>>

Codes6 == <<
  <<"RTS","imp">>, <<"ADC","indx">>, <<"KIL","imp">>, <<"RRA","indx">>, <<"DOP","zp">>, <<"ADC","zp">>,
  <<"ROR","zp">>, <<"RRA","zp">>, <<"PLA","imp">>, <<"ADC","imm">>, <<"ROR","acc">>, <<"ARR","imm">>,
  <<"JMP","ind">>, <<"ADC","abs">>, <<"ROR","abs">>, <<"RRA","abs">>>>

Codes7 == <<
  <<"BVS","imp">>, <<"ADC","indy">>, <<"KIL","imp">>, <<"RRA","indy">>, <<"DOP","zpx">>, <<"ADC","zpx">>,
  <<"ROR","zpx">>, <<"RRA","zpx">>, <<"SEI","imp">>, <<"ADC","absy">>, <<"NOP","imp">>, <<"RRA","absy">>,
  <<"TOP","absx">>, <<"ADC","absx">>, <<"ROR","absx">>, <<"RRA","absx">>>>

Codes8 == <<
  <<"DOP","imm">>, <<"STA","indx">>, <<"DOP","imm">>, <<"SAX","indx">>, <<"STY","zp">>, <<"STA","zp">>,
  <<"STX","zp">>, <<"SAX","zp">>, <<"DEY","imp">>, <<"DOP","imm">>, <<"TXA","imp">>, <<"XAA","imm">>,
  <<"STY","abs">>, <<"STA","abs">>, <<"STX","abs">>, <<"SAX","abs">>>>

Codes9 == <<
  <<"BCC","imp">>, <<"STA","indy">>, <<"KIL","imp">>, <<"AXA","indy">>, <<"STY","zpx">>, <<"STA","zpx">>,
  <<"STX","zpy">>, <<"SAX","zpy">>, <<"TYA","imp">>, <<"STA","absy">>, <<"TXS","imp">>, <<"XAS","absy">>,
  <<"SYA","absx">>, <<"STA","absx">>, <<"SXA","absy">>, <<"AXA","absy">>>>

CodesA == <<
  <<"LDY","imm">>, <<"LDA","indx">>, <<"LDX","imm">>, <<"LAX","indx">>, <<"LDY","zp">>, <<"LDA","zp">>,
  <<"LDX","zp">>, <<"LAX","zp">>, <<"TAY","imp">>, <<"LDA","imm">>, <<"TAX","imp">>, <<"ATX","imm">>,
  <<"LDY","abs">>, <<"LDA","abs">>, <<"LDX","abs">>, <<"LAX","abs">>>>

CodesB == <<
  <<"BCS","imp">>, <<"LDA","indy">>, <<"KIL","imp">>, <<"LAX","indy">>, <<"LDY","zpx">>, <<"LDA","zpx">>,
  <<"LDX","zpy">>, <<"LAX","zpy">>, <<"CLV","imp">>, <<"LDA","absy">>, <<"TSX","imp">>, <<"LAR","absy">>,
  <<"LDY","absx">>, <<"LDA","absx">>, <<"LDX","absy">>, <<"LAX","absy">>>>

CodesC == <<
  <<"CPY","imm">>, <<"CMP","indx">>, <<"DOP","imm">>, <<"DCP","indx">>, <<"CPY","zp">>, <<"CMP","zp">>,
  <<"DEC","zp">>, <<"DCP","zp">>, <<"INY","imp">>, <<"CMP","imm">>, <<"DEX","imp">>, <<"AXS","imm">>,
  <<"CPY","abs">>, <<"CMP","abs">>, <<"DEC","abs">>, <<"DCP","abs">>>>

CodesD == <<
  <<"BNE","imp">>, <<"CMP","indy">>, <<"KIL","imp">>, <<"DCP","indy">>, <<"DOP","zpx">>, <<"CMP","zpx">>,
  <<"DEC","zpx">>, <<"DCP","zpx">>, <<"CLD","imp">>, <<"CMP","absy">>, <<"NOP","imp">>, <<"DCP","absy">>,
  <<"TOP","absx">>, <<"CMP","absx">>, <<"DEC","absx">>, <<"DCP","absx">>>>

CodesE == <<
  <<"CPX","imm">>, <<"SBC","indx">>, <<"DOP","imm">>, <<"ISB","indx">>, <<"CPX","zp">>, <<"SBC","zp">>,
  <<"INC","zp">>, <<"ISB","zp">>, <<"INX","imp">>, <<"SBC","imm">>, <<"NOP","imp">>, <<"SBC","imm">>,
  <<"CPX","abs">>, <<"SBC","abs">>, <<"INC","abs">>, <<"ISB","abs">>>>

CodesF == <<
  <<"BEQ","imp">>, <<"SBC","indy">>, <<"KIL","imp">>, <<"ISB","indy">>, <<"DOP","zpx">>, <<"SBC","zpx">>,
  <<"INC","zpx">>, <<"ISB","zpx">>, <<"SED","imp">>, <<"SBC","absy">>, <<"NOP","imp">>, <<"ISB","absy">>,
  <<"TOP","absx">>, <<"SBC","absx">>, <<"INC","absx">>, <<"ISB","absx">>>>

\* The file lists the documented ones in this order and then, by mnemonic, the others.
Codes == <<Codes0, Codes1, Codes2, Codes3, Codes4, Codes5, Codes6, Codes7,
           Codes8, Codes9, CodesA, CodesB, CodesC, CodesD, CodesE, CodesF>>

(***************************************************************************)
(* The arms, in the order of the match: what each does with its operand.   *)
(***************************************************************************)
Kinds(mnemonics, kind) == mnemonics \X {kind}

ArmsAdc == Kinds({"ADC", "AND"}, "read")
ArmsAsl == Kinds({"ASL"}, "modify") \cup Kinds({"BIT"}, "read")
ArmsCmp == Kinds({"CMP", "CPX", "CPY"}, "read")
ArmsDec == Kinds({"DEC"}, "modify") \cup Kinds({"EOR"}, "read")
ArmsFlags == Kinds({"CLC", "CLD", "CLI", "CLV", "SEC", "SED", "SEI"}, "register")
ArmsInc == Kinds({"INC"}, "modify")
ArmsLda == Kinds({"LDA", "LDX", "LDY"}, "read")
ArmsLsr == Kinds({"LSR"}, "modify") \cup Kinds({"NOP"}, "register") \cup Kinds({"ORA"}, "read")
ArmsTransfer == Kinds({"DEX", "DEY", "INY", "INX", "TAX", "TAY", "TXA", "TYA"}, "register")
ArmsRol == Kinds({"ROL", "ROR"}, "modify")
ArmsSbc == Kinds({"SBC"}, "read")
ArmsSta == Kinds({"STA"}, "store") \cup Kinds({"SXA", "SYA"}, "unstable")
ArmsStack == Kinds({"TXS", "TSX"}, "register") \cup Kinds({"PHA", "PHP"}, "push")
             \cup Kinds({"PLA", "PLP"}, "pull")
ArmsStx == Kinds({"STX", "STY"}, "store")
ArmsAac == Kinds({"AAC", "ARR", "ASR", "ATX", "AXS"}, "read") \cup Kinds({"SAX"}, "store")
           \cup Kinds({"AXA"}, "unstable")
ArmsDcp == Kinds({"DCP"}, "modify") \cup Kinds({"DOP"}, "skip")
ArmsIsb == Kinds({"ISB"}, "modify") \cup Kinds({"KIL"}, "halt")
ArmsLar == Kinds({"LAR", "LAX"}, "read")
ArmsRla == Kinds({"RLA", "RRA"}, "modify")
ArmsSlo == Kinds({"SLO", "SRE"}, "modify")
ArmsTop == Kinds({"TOP", "XAA"}, "read") \cup Kinds({"XAS"}, "unstable")
ArmsJump == {<<"JMP", "jump">>, <<"JSR", "call">>, <<"RTI", "rti">>, <<"RTS", "rts">>, <<"BRK", "brk">>}
ArmsBranch == Kinds({"BCC", "BCS", "BEQ", "BMI", "BNE", "BPL", "BVC", "BVS"}, "branch")

Arms == ArmsAdc \cup ArmsAsl \cup ArmsCmp \cup ArmsDec \cup ArmsFlags \cup ArmsInc \cup ArmsLda
        \cup ArmsLsr \cup ArmsTransfer \cup ArmsRol \cup ArmsSbc \cup ArmsSta \cup ArmsStack
        \cup ArmsStx \cup ArmsAac \cup ArmsDcp \cup ArmsIsb \cup ArmsLar \cup ArmsRla \cup ArmsSlo
        \cup ArmsTop \cup ArmsJump \cup ArmsBranch

Arm == [o \in 0..255 |-> Codes[(o \div 16) + 1][(o % 16) + 1]]
Mnemonic(in) == Arm[in.op][1]
ModeOf(in) == Arm[in.op][2]
Kind(in, kind) == <<Mnemonic(in), kind>> \in Arms

(***************************************************************************)
(* What an instruction does: its accesses in order (a register or a result *)
(* it writes by a name), where it goes on, the stack it leaves, and the    *)
(* cycles it takes more than the table has.                                *)
(***************************************************************************)
Peek(a) == <<"R", a, 0>>
Write(a, v) == <<"W", a, v>>
Old == -1
New == -2
Reg == -3

Plus(a, n) == (a + n) % (B * B)
Page(a) == a \div B
Low(a) == a % B
FromBytes(bytes) == bytes[1] + B * bytes[2]
Stack(sp) == B + ((sp + B) % B)
Vector(in) == B * B - (IF in.nmi THEN 6 ELSE 2)

\* The opcode, n bytes after it, and what else it does.
Does(in, n, io) ==
  [io |-> [k \in 1 .. n + 1 |-> Peek(Plus(in.pc, k - 1))] \o io,
   pc |-> Plus(in.pc, n + 1), sp |-> in.sp, extra |-> 0]

(* The addressing modes *)
ZeroPaged(in) == ModeOf(in) \in {"zp", "zpx", "zpy"}
Carries(in) == ModeOf(in) \in {"absx", "absy", "indy"}
OperandBytes(in) ==
  CASE ModeOf(in) \in {"imp", "acc"} -> 0
    [] ModeOf(in) \in {"abs", "absx", "absy", "ind"} -> 2
    [] OTHER -> 1

Pointer(in) == IF ModeOf(in) = "indx" THEN (in.o[1] + in.index) % B ELSE in.o[1]
\* read_word_from_zp
Via(in) == IF ModeOf(in) \in {"indx", "indy"}
           THEN <<Peek(Pointer(in)), Peek((Pointer(in) + 1) % B)>> ELSE <<>>
BaseOf(in) == CASE ZeroPaged(in) -> in.o[1]
                [] ModeOf(in) \in {"indx", "indy"} -> FromBytes(in.p)
                [] OTHER -> FromBytes(in.o)
Target(in) == CASE ModeOf(in) \in {"zpx", "zpy"} -> (BaseOf(in) + in.index) % B
                 [] Carries(in) -> Plus(BaseOf(in), in.index)
                 [] OTHER -> BaseOf(in)
\* page_crossed, and the address before the carry
Crosses(in) == Carries(in) /\ Page(Target(in)) # Page(BaseOf(in))
Wrong(in) == Peek(B * Page(BaseOf(in)) + Low(Target(in)))
Early(in) == IF Carries(in) THEN <<Wrong(in)>> ELSE <<>>

(* The kinds of arms *)
Reading(in) ==
  LET target == IF Crosses(in) THEN <<Wrong(in), Peek(Target(in))>> ELSE <<Peek(Target(in))>>
      io == IF ModeOf(in) = "imm" THEN <<>> ELSE Via(in) \o target
  IN  [Does(in, OperandBytes(in), io) EXCEPT
         !.extra = IF Crosses(in) THEN 1 ELSE 0,
         !.sp = IF Mnemonic(in) = "LAR" THEN BitAnd(@, in.mask) ELSE @]

\* The reading and the two writes are also those of dcp, isc, rla, rra, slo and sre.
Modifying(in) ==
  LET a == Target(in)
  IN  Does(in, OperandBytes(in),
           IF ModeOf(in) = "acc" THEN <<>>
           ELSE Via(in) \o Early(in) \o <<Peek(a), Write(a, Old), Write(a, New)>>)

Storing(in) == Does(in, OperandBytes(in), Via(in) \o Early(in) \o <<Write(Target(in), Reg)>>)

\* A register and the page after one: AXA's after the target's, the others' after the base's.
\* SXA and SYA, across pages, mask the page they write to with the register too.
Masking(in) ==
  LET page == IF Mnemonic(in) = "AXA" THEN Page(Target(in)) ELSE Page(BaseOf(in))
      a == IF Crosses(in) /\ Mnemonic(in) \in {"SXA", "SYA"}
           THEN B * BitAnd(Page(Target(in)), in.mask) + Low(Target(in)) ELSE Target(in)
  IN  [Does(in, OperandBytes(in),
            Via(in) \o Early(in) \o <<Write(a, BitAnd(in.mask, (page + 1) % B))>>)
       EXCEPT !.sp = IF Mnemonic(in) = "XAS" THEN in.mask ELSE @]

\* TOP of an absolute address is among them: it reads no more than the address.
Skipping(in) == Does(in, OperandBytes(in), <<>>)

Registering(in) == [Does(in, 0, <<>>) EXCEPT !.sp = IF Mnemonic(in) = "TXS" THEN in.mask ELSE @]

Branching(in) ==
  LET next == Plus(in.pc, 2)
      to == Plus(next, B * B + Signed(in.o[1]))
  IN  IF ~in.taken THEN Does(in, 1, <<>>)
      ELSE [Does(in, 1, <<>>) EXCEPT !.pc = to, !.extra = IF Page(to) = Page(next) THEN 1 ELSE 2]

\* read_word_indirect keeps the high byte in the page of the low one.
Indirect(w) == <<Peek(w), Peek(IF Low(w) = B - 1 THEN B * Page(w) ELSE w + 1)>>

Jumping(in) ==
  IF ModeOf(in) = "abs" THEN [Does(in, 2, <<>>) EXCEPT !.pc = FromBytes(in.o)]
  ELSE [Does(in, 2, Indirect(FromBytes(in.o))) EXCEPT !.pc = FromBytes(in.p)]

PushWord(sp, a) == <<Write(Stack(sp), Page(a)), Write(Stack(sp - 1), Low(a))>>

Calling(in) ==
  [Does(in, 2, PushWord(in.sp, Plus(in.pc, 2))) EXCEPT
     !.pc = FromBytes(in.o), !.sp = (@ + B - 2) % B]

Rts(in) == [Does(in, 0, <<Peek(Plus(in.pc, 1)), Peek(Stack(in.sp + 1)), Peek(Stack(in.sp + 2))>>)
            EXCEPT !.pc = Plus(FromBytes(in.p), 1), !.sp = (@ + 2) % B]

Rti(in) == [Does(in, 0, <<Peek(Plus(in.pc, 1)), Peek(Stack(in.sp + 1)), Peek(Stack(in.sp + 2)),
                          Peek(Stack(in.sp + 3))>>)
            EXCEPT !.pc = FromBytes(in.p), !.sp = (@ + 3) % B]

Brk(in) ==
  [Does(in, 1, <<Peek(Plus(in.pc, 1))>> \o PushWord(in.sp, Plus(in.pc, 2))
               \o <<Write(Stack(in.sp - 2), Reg), Peek(Vector(in)), Peek(Vector(in) + 1)>>)
   EXCEPT !.pc = FromBytes(in.p), !.sp = (@ + B - 3) % B]

Pushing(in) == [Does(in, 0, <<Write(Stack(in.sp), Reg)>>) EXCEPT !.sp = (@ + B - 1) % B]
Pulling(in) == [Does(in, 0, <<Peek(Stack(in.sp + 1))>>) EXCEPT !.sp = (@ + 1) % B]

Halts(o) == <<Arm[o][1], "halt">> \in Arms

RunOpcode(in) ==
  CASE Kind(in, "read") -> IF Mnemonic(in) = "TOP" /\ ModeOf(in) = "abs" THEN Skipping(in)
                         ELSE Reading(in)
        [] Kind(in, "modify") -> Modifying(in)
        [] Kind(in, "store") -> Storing(in)
        [] Kind(in, "unstable") -> Masking(in)
        [] Kind(in, "skip") -> Skipping(in)
        [] Kind(in, "register") \/ Kind(in, "halt") -> Registering(in)
        [] Kind(in, "branch") -> Branching(in)
        [] Kind(in, "jump") -> Jumping(in)
        [] Kind(in, "call") -> Calling(in)
        [] Kind(in, "rts") -> Rts(in)
        [] Kind(in, "rti") -> Rti(in)
        [] Kind(in, "brk") -> Brk(in)
        [] Kind(in, "push") -> Pushing(in)
        [] Kind(in, "pull") -> Pulling(in)

(***************************************************************************)
(* tick_cycle: the accesses of each cycle.  It reads the opcode to look it *)
(* up.  BRK and the branches go on from there; of any other opcode the     *)
(* whole happens in the first cycle, by run_opcode, which reads it again.  *)
(***************************************************************************)
BrkCycles(in) ==
  LET io == Brk(in).io
  IN  <<SubSeq(io, 1, 2), <<io[3]>>, <<io[4]>>, <<io[5]>>, <<io[6]>>, <<io[7]>>, <<io[8]>>>>

BranchCycles(in) ==
  LET done == Branching(in)
  IN  <<<<done.io[1]>>, <<done.io[2]>>>> \o [c \in 1 .. done.extra |-> <<>>]

TickCycles(in) ==
  CASE Kind(in, "brk") -> BrkCycles(in)
    [] Kind(in, "branch") -> BranchCycles(in)
    [] OTHER -> <<<<Peek(in.pc)>> \o RunOpcode(in).io>>
                \o [c \in 1 .. BaseCycles[in.op] + RunOpcode(in).extra - 1 |-> <<>>]
=============================================================================

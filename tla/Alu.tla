---------------------------------- MODULE Alu ----------------------------------
(*****************************************************************************)
(* What the instruction types compute: registers and flags out of registers,  *)
(* flags and one byte of memory.  Every type of cpu2/instruction_types.rs has *)
(* code of its own, the types that do the work of two included, and none of   *)
(* it is shared but the setting of a flag and the two shifts.  The laws below *)
(* say what programs take for granted of them together, and that they compute *)
(* what the repository's first CPU computes (module FirstAlu).                *)
(*                                                                           *)
(* An instruction is an operator on the state of the machine it finds; m is   *)
(* the byte its addressing mode has found, and the byte it leaves there.      *)
(*****************************************************************************)
EXTENDS FirstAlu

VARIABLE machine   \* registers a, x, y, the byte m, and the flags c, z, n, v
aluVars == machine

Flag == {0, 1}
Set(condition) == IF condition THEN 1 ELSE 0

\* CpuState::default, with any byte of memory.
AluInit == machine \in [a : {0}, x : {0}, y : {0}, m : Byte,
                     c : {0}, z : {FALSE}, n : {FALSE}, v : {FALSE}]

(*****************************************************************************)
(* set_zero_flag, set_negative_flag, shift_left, shift_right                  *)
(*****************************************************************************)
SetNZ(s, b) == [s EXCEPT !.n = Negative(b), !.z = (b = 0)]
Left(b) == (2 * b) % B
LeftCarry(b) == Set(Negative(b))
Right(b) == b \div 2
RightCarry(b) == b % 2

\* (a ^ r) & (b ^ r) & 0x80: the sum r has another sign than both terms.
Overflows(a, b, r) == Negative(BitAnd(BitXor(a, r), BitXor(b, r)))

(*****************************************************************************)
(* Loads, stores and transfers                                                *)
(*****************************************************************************)
Lda(s) == SetNZ([s EXCEPT !.a = s.m], s.m)
Ldx(s) == SetNZ([s EXCEPT !.x = s.m], s.m)
Ldy(s) == SetNZ([s EXCEPT !.y = s.m], s.m)
Pla(s) == SetNZ([s EXCEPT !.a = s.m], s.m)
Lax(s) == SetNZ([s EXCEPT !.a = s.m, !.x = s.m], s.m)

Atx(s) == LET r == BitAnd(BitOr(s.a, B - 1), s.m)
          IN  SetNZ([s EXCEPT !.a = r, !.x = r], r)

Xaa(s) == LET r == BitAnd(BitAnd(BitOr(s.a, B - 1), s.x), s.m)
          IN  SetNZ([s EXCEPT !.a = r], r)

Sta(s) == [s EXCEPT !.m = s.a]
Stx(s) == [s EXCEPT !.m = s.x]
Sty(s) == [s EXCEPT !.m = s.y]
Sax(s) == [s EXCEPT !.m = BitAnd(s.a, s.x)]

Tax(s) == SetNZ([s EXCEPT !.x = s.a], s.a)
Tay(s) == SetNZ([s EXCEPT !.y = s.a], s.a)
Txa(s) == SetNZ([s EXCEPT !.a = s.x], s.x)
Tya(s) == SetNZ([s EXCEPT !.a = s.y], s.y)

Moves(s) == {Lda(s), Ldx(s), Ldy(s), Pla(s), Lax(s), Atx(s), Xaa(s), Sta(s), Stx(s), Sty(s),
             Sax(s), Tax(s), Tay(s), Txa(s), Tya(s)}

(*****************************************************************************)
(* Logic, and the flag instructions                                           *)
(*****************************************************************************)
And(s) == LET r == BitAnd(s.a, s.m) IN SetNZ([s EXCEPT !.a = r], r)
Ora(s) == LET r == BitOr(s.a, s.m) IN SetNZ([s EXCEPT !.a = r], r)
Eor(s) == LET r == BitXor(s.a, s.m) IN SetNZ([s EXCEPT !.a = r], r)

Aac(s) == LET r == BitAnd(s.a, s.m) IN [SetNZ([s EXCEPT !.a = r], r) EXCEPT !.c = Set(Negative(r))]

\* Z of what the accumulator and memory have in common, N and V the upper bits of memory.
BitTest(s) == [s EXCEPT !.z = BitAnd(s.a, s.m) = 0, !.n = Negative(s.m),
                        !.v = (s.m % Half) >= Half \div 2]

Clc(s) == [s EXCEPT !.c = 0]
Sec(s) == [s EXCEPT !.c = 1]
Clv(s) == [s EXCEPT !.v = FALSE]

Logic(s) == {And(s), Ora(s), Eor(s), Aac(s), BitTest(s), Clc(s), Sec(s), Clv(s)}

(*****************************************************************************)
(* Sums, differences and comparisons                                          *)
(*****************************************************************************)
Adc(s) ==
  LET sum == s.a + s.m + s.c
      r == sum % B
  IN  [SetNZ(s, r) EXCEPT !.a = r, !.c = Set(sum > B - 1), !.v = Overflows(s.a, s.m, r)]

Sbc_OverflowOfOperand(s) ==
  LET inverted == BitNot(s.m)
      sum == s.a + inverted + s.c
      r == sum % B
  IN  [SetNZ(s, r) EXCEPT !.a = r, !.c = Set(sum > B - 1), !.v = Overflows(s.a, s.m, r)]
Sbc(s) ==
  LET inverted == BitNot(s.m)
      sum == s.a + inverted + s.c
      r == sum % B
  IN  [SetNZ(s, r) EXCEPT !.a = r, !.c = Set(sum > B - 1), !.v = Overflows(s.a, inverted, r)]

Cmp(s) == [SetNZ(s, (s.a + B - s.m) % B) EXCEPT !.c = Set(s.a >= s.m)]
Cpx(s) == [SetNZ(s, (s.x + B - s.m) % B) EXCEPT !.c = Set(s.x >= s.m)]
Cpy(s) == [SetNZ(s, (s.y + B - s.m) % B) EXCEPT !.c = Set(s.y >= s.m)]

Axs(s) == LET both == BitAnd(s.a, s.x)
              r == (both + B - s.m) % B
          IN  [SetNZ(s, r) EXCEPT !.x = r, !.c = Set(both >= s.m)]

Inx(s) == SetNZ([s EXCEPT !.x = Up(@)], Up(s.x))
Iny(s) == SetNZ([s EXCEPT !.y = Up(@)], Up(s.y))
Dex(s) == SetNZ([s EXCEPT !.x = Down(@)], Down(s.x))
Dey(s) == SetNZ([s EXCEPT !.y = Down(@)], Down(s.y))
Inc(s) == SetNZ([s EXCEPT !.m = Up(@)], Up(s.m))
Dec(s) == SetNZ([s EXCEPT !.m = Down(@)], Down(s.m))

Sums(s) == {Adc(s), Sbc(s), Cmp(s), Cpx(s), Cpy(s), Axs(s),
            Inx(s), Iny(s), Dex(s), Dey(s), Inc(s), Dec(s)}

(*****************************************************************************)
(* Shifts                                                                     *)
(*****************************************************************************)
Asl(s) == [SetNZ(s, Left(s.m)) EXCEPT !.m = Left(@), !.c = LeftCarry(s.m)]
AslA(s) == [SetNZ(s, Left(s.a)) EXCEPT !.a = Left(@), !.c = LeftCarry(s.a)]
Lsr(s) == [SetNZ(s, Right(s.m)) EXCEPT !.m = Right(@), !.c = RightCarry(s.m)]
LsrA(s) == [SetNZ(s, Right(s.a)) EXCEPT !.a = Right(@), !.c = RightCarry(s.a)]

Rol(s) == LET r == Left(s.m) + s.c
          IN  [SetNZ(s, r) EXCEPT !.m = r, !.c = Set(Negative(s.m))]
RolA(s) == LET r == Left(s.a) + s.c
           IN  [SetNZ(s, r) EXCEPT !.a = r, !.c = Set(Negative(s.a))]
Ror(s) == LET r == Right(s.m) + s.c * Half
          IN  [SetNZ(s, r) EXCEPT !.m = r, !.c = s.m % 2]
RorA(s) == LET r == Right(s.a) + s.c * Half
           IN  [SetNZ(s, r) EXCEPT !.a = r, !.c = s.a % 2]

Asr(s) == LET both == BitAnd(s.a, s.m)
          IN  [SetNZ(s, Right(both)) EXCEPT !.a = Right(both), !.c = RightCarry(both)]

\* ARR: AND and ROR, with C and V from the two bits under the sign.
Arr(s) == LET r == Right(BitAnd(s.a, s.m)) + s.c * Half
              second == ((2 * r) \div Half) % 2
              third == ((4 * r) \div Half) % 2
          IN  [SetNZ(s, r) EXCEPT !.a = r, !.c = second, !.v = second # third]

Shifts(s) == {Asl(s), AslA(s), Lsr(s), LsrA(s), Rol(s), RolA(s), Ror(s), RorA(s), Asr(s), Arr(s)}

(*****************************************************************************)
(* The undocumented types that modify memory and combine it with the          *)
(* accumulator                                                                *)
(*****************************************************************************)
Slo(s) == LET r == BitOr(s.a, Left(s.m))
          IN  [SetNZ(s, r) EXCEPT !.a = r, !.m = Left(@), !.c = LeftCarry(s.m)]

Rla(s) == LET rotated == Left(s.m) + s.c
              r == BitAnd(s.a, rotated)
          IN  [SetNZ(s, r) EXCEPT !.a = r, !.m = rotated, !.c = Set(Negative(s.m))]

Sre(s) == LET r == BitXor(s.a, Right(s.m))
          IN  [SetNZ(s, r) EXCEPT !.a = r, !.m = Right(@), !.c = RightCarry(s.m)]

Rra_OldCarry(s) ==
  LET rotated == Right(s.m) + s.c * Half
      sum == s.a + rotated + s.c
      r == sum % B
  IN  [SetNZ(s, r) EXCEPT !.a = r, !.m = rotated, !.c = Set(sum > B - 1),
                          !.v = Overflows(s.a, rotated, r)]
Rra(s) ==
  LET rotated == Right(s.m) + s.c * Half
      sum == s.a + rotated + (s.m % 2)
      r == sum % B
  IN  [SetNZ(s, r) EXCEPT !.a = r, !.m = rotated, !.c = Set(sum > B - 1),
                          !.v = Overflows(s.a, rotated, r)]

Dcp(s) == LET r == Down(s.m)
          IN  [SetNZ(s, (s.a + B - r) % B) EXCEPT !.m = r, !.c = Set(s.a >= r)]

Isb(s) ==
  LET inverted == BitNot(Up(s.m))
      sum == s.a + inverted + s.c
      r == sum % B
  IN  [SetNZ(s, r) EXCEPT !.a = r, !.m = Up(@), !.c = Set(sum > B - 1),
                          !.v = Overflows(s.a, inverted, r)]

Combined(s) == {Slo(s), Rla(s), Sre(s), Rra(s), Dcp(s), Isb(s)}

(*****************************************************************************)
(* The conditions of the branches                                             *)
(*****************************************************************************)
Bpl(s) == ~s.n
Bmi(s) == s.n
Bvc(s) == ~s.v
Bvs(s) == s.v
Bcc(s) == s.c = 0
Bcs(s) == s.c = 1
Bne(s) == ~s.z
Beq(s) == s.z

(*****************************************************************************)
(* Any program, on any bytes of memory                                        *)
(*****************************************************************************)
With(s, b) == [s EXCEPT !.m = b]

AluNext == \/ machine' \in Moves(machine)
        \/ machine' \in Logic(machine)
        \/ machine' \in Sums(machine)
        \/ machine' \in Shifts(machine)
        \/ machine' \in Combined(machine)
        \/ \E b \in Byte : machine' = With(machine, b)

AluSpec == AluInit /\ [][AluNext]_aluVars

AluTypeOK == machine \in [a : Byte, x : Byte, y : Byte, m : Byte,
                       c : Flag, z : BOOLEAN, n : BOOLEAN, v : BOOLEAN]

\* Two bytes read as one number.
Word(low, high) == low + B * high
SignedWord(low, high) == low + B * Signed(high)
Words == B * B

\* Programs compute with numbers of two bytes, byte by byte, low one first, and move bytes
\* in between: sums and differences are right, carry and overflow say whether they fit, a
\* comparison orders them as unsigned numbers (C) and as signed ones (N and V differ).
WideSums ==
  LET s == machine
      sum == Adc(Clc(s))
      difference == Sbc(Sec(s))
      P == Word(s.a, s.y)
      SP == SignedWord(s.a, s.y)
      Fits(k) == -Words <= 2 * k /\ 2 * k < Words
  IN  \A high \in Byte :
        LET Q == Word(s.m, high)
            SQ == SignedWord(s.m, high)
            sumHigh == Adc(With(Tya(sum), high))
            differenceHigh == Sbc(With(Tya(difference), high))
            comparedHigh == Sbc(With(Tya(Cmp(s)), high))
        IN  /\ Word(sum.a, sumHigh.a) + Words * sumHigh.c = P + Q
            /\ Bvs(sumHigh) <=> ~Fits(SP + SQ)
            /\ Word(difference.a, differenceHigh.a) = P - Q + Words * (1 - differenceHigh.c)
            /\ Bvs(differenceHigh) <=> ~Fits(SP - SQ)
            /\ Bcs(comparedHigh) <=> P >= Q
            /\ (Bmi(comparedHigh) # Bvs(comparedHigh)) <=> SP < SQ

\* Shifts of two bytes double and halve, and rotating there and back loses nothing.
WideShifts ==
  LET s == machine
      P == Word(s.m, s.a)
      doubled == RolA(Asl(s))
      halved == Ror(LsrA(s))
      back == Ror(RorA(RolA(Rol(s))))
  IN  /\ Word(doubled.m, doubled.a) + Words * doubled.c = 2 * P
      /\ 2 * Word(halved.m, halved.a) + halved.c = P
      /\ [back EXCEPT !.z = s.z, !.n = s.n] = s

WideArithmetic == WideSums /\ WideShifts

\* Every type computes what the first CPU computes, with its helpers, from the same registers,
\* flags and byte: the types that do the work of two, which here repeat the code of both, and
\* the overflow of a difference, which the two CPUs take from different bits.  XAA alone is not
\* among them: the constant the two mix into its accumulator is not the same.
ComputesAsFirst ==
  LET s == machine
  IN  /\ <<Adc(s), Sbc(s), And(s), Ora(s), Eor(s), BitTest(s), Cmp(s), Cpx(s), Cpy(s)>>
           = <<adc(s), sbc(s), and(s), ora(s), eor(s), bit(s), cmp(s), cpx(s), cpy(s)>>
      /\ <<Asl(s), Lsr(s), Rol(s), Ror(s), Inc(s), Dec(s)>>
           = <<asl(s), lsr(s), rol(s), ror(s), inc(s), dec(s)>>
      /\ <<AslA(s), LsrA(s), RolA(s), RorA(s)>>
           = <<OnAccumulator(asl(AsMemory(s)), s), OnAccumulator(lsr(AsMemory(s)), s),
               OnAccumulator(rol(AsMemory(s)), s), OnAccumulator(ror(AsMemory(s)), s)>>
      /\ <<Slo(s), Rla(s), Sre(s), Rra(s), Dcp(s), Isb(s)>>
           = <<slo(s), rla(s), sre(s), rra(s), dcp(s), isc(s)>>
      /\ <<Lda(s), Pla(s), Ldx(s), Ldy(s), Lax(s), Atx(s)>>
           = <<lda(s), lda(s), ldx(s), ldy(s), LAX_ABS(s), ATX_IMM(s)>>
      /\ <<Sta(s), Stx(s), Sty(s), Sax(s)>> = <<STA_ABS(s), STX_ABS(s), STY_ABS(s), SAX_ABS(s)>>
      /\ <<Inx(s), Iny(s), Dex(s), Dey(s), Tax(s), Tay(s), Txa(s), Tya(s)>>
           = <<inx(s), iny(s), dex(s), dey(s), tax(s), tay(s), txa(s), tya(s)>>
      /\ <<Aac(s), Arr(s), Asr(s), Axs(s)>> = <<AAC_IMM(s), ARR_IMM(s), ASR_IMM(s), AXS_IMM(s)>>
      /\ <<Clc(s), Sec(s), Clv(s)>> = FlagArms(s)
      /\ <<Bpl(s), Bmi(s), Bvc(s), Bvs(s), Bcc(s), Bcs(s), Bne(s), Beq(s)>> = Conditions(s)
================================================================================

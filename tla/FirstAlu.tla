-------------------------------- MODULE FirstAlu --------------------------------
(*****************************************************************************)
(* What the repository's first CPU computes: the helpers that its match on    *)
(* opcodes calls, and the arms that compute without a helper.  As in module   *)
(* Alu, of which this one is the reference, s is the machine an instruction   *)
(* finds and s.m the byte it reads and writes; names are those of the code.   *)
(*****************************************************************************)
EXTENDS Bytes

FLAG(condition) == IF condition THEN 1 ELSE 0

update_zero_and_negative_flags(s, value) == [s EXCEPT !.z = (value = 0), !.n = Negative(value)]

Accumulator(s, value) == update_zero_and_negative_flags([s EXCEPT !.a = value], value)
RegisterX(s, value) == update_zero_and_negative_flags([s EXCEPT !.x = value], value)
RegisterY(s, value) == update_zero_and_negative_flags([s EXCEPT !.y = value], value)
Memory(s, value) == update_zero_and_negative_flags([s EXCEPT !.m = value], value)

\* An arm of the accumulator hands it to the helper that the arms of memory use.
AsMemory(s) == [s EXCEPT !.m = s.a]
OnAccumulator(t, s) == [t EXCEPT !.a = t.m, !.m = s.m]

(*****************************************************************************)
(* Helpers                                                                    *)
(*****************************************************************************)
adc(s) ==
  LET sum == s.a + s.m + s.c
      result == sum % B
  IN  Accumulator([s EXCEPT !.c = FLAG(sum > B - 1),
                            !.v = Negative(BitAnd(BitXor(s.a, result), BitXor(s.m, result)))],
                  result)

\* Here overflow compares signs.
sbc(s) ==
  LET inverted == BitNot(s.m)
      sum == s.a + inverted + s.c
      result == sum % B
  IN  Accumulator([s EXCEPT !.c = FLAG(sum >= B),
                            !.v = /\ Negative(s.a) = Negative(inverted)
                                  /\ Negative(s.a) # Negative(result)],
                  result)

and(s) == Accumulator(s, BitAnd(s.a, s.m))
ora(s) == Accumulator(s, BitOr(s.a, s.m))
eor(s) == Accumulator(s, BitXor(s.a, s.m))

asl(s) == [Memory(s, (2 * s.m) % B) EXCEPT !.c = FLAG(Negative(s.m))]
lsr(s) == [Memory(s, s.m \div 2) EXCEPT !.c = s.m % 2]
rol(s) == [Memory(s, ((2 * s.m) % B) + s.c) EXCEPT !.c = FLAG(Negative(s.m))]
ror(s) == [Memory(s, (s.m \div 2) + s.c * Half) EXCEPT !.c = s.m % 2]

bit(s) == [s EXCEPT !.z = (BitAnd(s.a, s.m) = 0), !.n = Negative(s.m), !.v = ((4 * s.m) \div B) % 2 = 1]

compare(s, register) ==
  [s EXCEPT !.c = FLAG(register >= s.m), !.z = (register = s.m),
            !.n = Negative((register + B - s.m) % B)]
cmp(s) == compare(s, s.a)
cpx(s) == compare(s, s.x)
cpy(s) == compare(s, s.y)

dec(s) == Memory(s, (s.m + B - 1) % B)
inc(s) == Memory(s, (s.m + 1) % B)

dcp(s) == cmp(dec(s))
isc(s) == sbc(inc(s))
rla(s) == and(rol(s))
rra(s) == adc(ror(s))
slo(s) == ora(asl(s))
sre(s) == eor(lsr(s))

lda(s) == Accumulator(s, s.m)
ldx(s) == RegisterX(s, s.m)
ldy(s) == RegisterY(s, s.m)
dex(s) == RegisterX(s, (s.x + B - 1) % B)
dey(s) == RegisterY(s, (s.y + B - 1) % B)
inx(s) == RegisterX(s, (s.x + 1) % B)
iny(s) == RegisterY(s, (s.y + 1) % B)
tax(s) == RegisterX(s, s.a)
tay(s) == RegisterY(s, s.a)
txa(s) == Accumulator(s, s.x)
tya(s) == Accumulator(s, s.y)

(*****************************************************************************)
(* Arms that compute on their own                                             *)
(*****************************************************************************)
AAC_IMM(s) == LET t == and(s) IN [t EXCEPT !.c = FLAG(Negative(t.a))]

\* The carry of the result is its bit under the sign.
ARR_IMM(s) ==
  LET result == (BitAnd(s.a, s.m) \div 2) + s.c * Half
      bit6 == ((4 * result) \div B) % 2
      bit5 == ((8 * result) \div B) % 2
  IN  Accumulator([s EXCEPT !.c = bit6, !.v = bit6 # bit5], result)

ASR_IMM(s) == LET value == BitAnd(s.a, s.m)
              IN  Accumulator([s EXCEPT !.c = value % 2], value \div 2)

ATX_IMM(s) == Accumulator([s EXCEPT !.x = s.m], s.m)
LAX_ABS(s) == Accumulator([s EXCEPT !.x = s.m], s.m)

AXS_IMM(s) == LET temp == BitAnd(s.a, s.x)
              IN  RegisterX([s EXCEPT !.c = FLAG(temp >= s.m)], (temp + B - s.m) % B)

STA_ABS(s) == [s EXCEPT !.m = s.a]
STX_ABS(s) == [s EXCEPT !.m = s.x]
STY_ABS(s) == [s EXCEPT !.m = s.y]
SAX_ABS(s) == [s EXCEPT !.m = BitAnd(s.a, s.x)]

\* CLC, SEC, CLV: the flags this module has.
FlagArms(s) == <<[s EXCEPT !.c = 0], [s EXCEPT !.c = 1], [s EXCEPT !.v = FALSE]>>

\* The conditions of BPL, BMI, BVC, BVS, BCC, BCS, BNE, BEQ.
Conditions(s) == <<~s.n, s.n, ~s.v, s.v, s.c = 0, s.c # 0, ~s.z, s.z>>

================================================================================

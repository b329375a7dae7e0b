-------------------------------- MODULE Opcodes --------------------------------
(*****************************************************************************)
(* The 256 opcodes of the CPU: what `Cpu2::decode` makes of each of them, and *)
(* the table of lengths and cycle counts that drove the repository's first    *)
(* CPU and now serves the trace of `Nes::trace`.  `decode` returns an         *)
(* addressing mode and an instruction type, both small state machines; the    *)
(* number of cycles of an opcode is written nowhere in the new CPU, it        *)
(* results from running the two (module CpuBus).  The table is the reference  *)
(* for it.                                                                   *)
(*                                                                           *)
(* An entry is <<type, mode, access>>: the instruction type, the addressing   *)
(* mode, and the MemoryAccess the mode is built with: R(ead), W(rite),        *)
(* M (read-modify-write), J(ump), or "-" for a mode that takes none.          *)
(*****************************************************************************)
EXTENDS Naturals, Sequences

Row0 == <<
  <<"Brk","imp","-">>, <<"Ora","indx","R">>, <<"Kil","imp","-">>, <<"Slo","indx","R">>,
  <<"Dop","zp","-">>, <<"Ora","zp","-">>, <<"Asl","zp","-">>, <<"Slo","zp","-">>,
  <<"Php","imp","-">>, <<"Ora","imm","-">>, <<"AslA","imp","-">>, <<"Aac","imm","-">>,
  <<"Top","abs","R">>, <<"Ora","abs","R">>, <<"Asl","abs","R">>, <<"Slo","abs","R">>>>

Row1 == <<
  <<"Bpl","rel","-">>, <<"Ora","indy","R">>, <<"Kil","imp","-">>, <<"Slo","indy","M">>,
  <<"Dop","zpx","-">>, <<"Ora","zpx","-">>, <<"Asl","zpx","-">>, <<"Slo","zpx","-">>,
  <<"Clc","imp","-">>, <<"Ora","absy","R">>, <<"Nop","imp","-">>, <<"Slo","absy","M">>,
  <<"Top","absx","R">>, <<"Ora","absx","R">>, <<"Asl","absx","M">>, <<"Slo","absx","M">>>>

Row2 == <<
  <<"Jsr","imp","-">>, <<"And","indx","R">>, <<"Kil","imp","-">>, <<"Rla","indx","R">>,
  <<"Bit","zp","-">>, <<"And","zp","-">>, <<"Rol","zp","-">>, <<"Rla","zp","-">>,
  <<"Plp","imp","-">>, <<"And","imm","-">>, <<"RolA","imp","-">>, <<"Aac","imm","-">>,
  <<"Bit","abs","R">>, <<"And","abs","R">>, <<"Rol","abs","R">>, <<"Rla","abs","R">>>>

Row3 == <<
  <<"Bmi","rel","-">>, <<"And","indy","R">>, <<"Kil","imp","-">>, <<"Rla","indy","M">>,
  <<"Dop","zpx","-">>, <<"And","zpx","-">>, <<"Rol","zpx","-">>, <<"Rla","zpx","-">>,
  <<"Sec","imp","-">>, <<"And","absy","R">>, <<"Nop","imp","-">>, <<"Rla","absy","M">>,
  <<"Top","absx","R">>, <<"And","absx","R">>, <<"Rol","absx","M">>, <<"Rla","absx","M">>>>

Row4 == <<
  <<"Rti","imp","-">>, <<"Eor","indx","R">>, <<"Kil","imp","-">>, <<"Sre","indx","R">>,
  <<"Dop","zp","-">>, <<"Eor","zp","-">>, <<"Lsr","zp","-">>, <<"Sre","zp","-">>,
  <<"Pha","imp","-">>, <<"Eor","imm","-">>, <<"LsrA","imp","-">>, <<"Asr","imm","-">>,
  <<"Jmp","abs","J">>, <<"Eor","abs","R">>, <<"Lsr","abs","R">>, <<"Sre","abs","R">>>>

\* The code decodes the second part of this row after all the others.
Row5Begin == <<
  <<"Bvc","rel","-">>, <<"Eor","indy","R">>, <<"Kil","imp","-">>, <<"Sre","indy","M">>,
  <<"Dop","zpx","-">>, <<"Eor","zpx","-">>, <<"Lsr","zpx","-">>, <<"Sre","zpx","-">>,
  <<"Cli","imp","-">>>>

Row5End == <<
  <<"Eor","absy","R">>, <<"Nop","imp","-">>, <<"Sre","absy","M">>,
  <<"Top","absx","R">>, <<"Eor","absx","R">>, <<"Lsr","absx","M">>, <<"Sre","absx","M">>>>

Row5 == Row5Begin \o Row5End

Row6 == <<
  <<"Rts","imp","-">>, <<"Adc","indx","R">>, <<"Kil","imp","-">>, <<"Rra","indx","R">>,
  <<"Dop","zp","-">>, <<"Adc","zp","-">>, <<"Ror","zp","-">>, <<"Rra","zp","-">>,
  <<"Pla","imp","-">>, <<"Adc","imm","-">>, <<"RorA","imp","-">>, <<"Arr","imm","-">>,
  <<"Jmp","ind","-">>, <<"Adc","abs","R">>, <<"Ror","abs","R">>, <<"Rra","abs","R">>>>

Row7 == <<
  <<"Bvs","rel","-">>, <<"Adc","indy","R">>, <<"Kil","imp","-">>, <<"Rra","indy","M">>,
  <<"Dop","zpx","-">>, <<"Adc","zpx","-">>, <<"Ror","zpx","-">>, <<"Rra","zpx","-">>,
  <<"Sei","imp","-">>, <<"Adc","absy","R">>, <<"Nop","imp","-">>, <<"Rra","absy","M">>,
  <<"Top","absx","R">>, <<"Adc","absx","R">>, <<"Ror","absx","M">>, <<"Rra","absx","M">>>>

Row8 == <<
  <<"Dop","imm","-">>, <<"Sta","indx","W">>, <<"Dop","imm","-">>, <<"Sax","indx","W">>,
  <<"Sty","zp","-">>, <<"Sta","zp","-">>, <<"Stx","zp","-">>, <<"Sax","zp","-">>,
  <<"Dey","imp","-">>, <<"Dop","imm","-">>, <<"Txa","imp","-">>, <<"Xaa","imm","-">>,
  <<"Sty","abs","W">>, <<"Sta","abs","W">>, <<"Stx","abs","W">>, <<"Sax","abs","W">>>>

Row9 == <<
  <<"Bcc","rel","-">>, <<"Sta","indy","W">>, <<"Kil","imp","-">>, <<"Axa","indy","W">>,
  <<"Sty","zpx","-">>, <<"Sta","zpx","-">>, <<"Stx","zpy","-">>, <<"Sax","zpy","-">>,
  <<"Tya","imp","-">>, <<"Sta","absy","W">>, <<"Txs","imp","-">>, <<"Xas","absy","W">>,
  <<"Sya","absx","W">>, <<"Sta","absx","W">>, <<"Sxa","absy","W">>, <<"Axa","absy","W">>>>

RowA == <<
  <<"Ldy","imm","-">>, <<"Lda","indx","R">>, <<"Ldx","imm","-">>, <<"Lax","indx","R">>,
  <<"Ldy","zp","-">>, <<"Lda","zp","-">>, <<"Ldx","zp","-">>, <<"Lax","zp","-">>,
  <<"Tay","imp","-">>, <<"Lda","imm","-">>, <<"Tax","imp","-">>, <<"Atx","imm","-">>,
  <<"Ldy","abs","R">>, <<"Lda","abs","R">>, <<"Ldx","abs","R">>, <<"Lax","abs","R">>>>

RowB == <<
  <<"Bcs","rel","-">>, <<"Lda","indy","R">>, <<"Kil","imp","-">>, <<"Lax","indy","R">>,
  <<"Ldy","zpx","-">>, <<"Lda","zpx","-">>, <<"Ldx","zpy","-">>, <<"Lax","zpy","-">>,
  <<"Clv","imp","-">>, <<"Lda","absy","R">>, <<"Tsx","imp","-">>, <<"Lar","absy","R">>,
  <<"Ldy","absx","R">>, <<"Lda","absx","R">>, <<"Ldx","absy","R">>, <<"Lax","absy","R">>>>

RowC == <<
  <<"Cpy","imm","-">>, <<"Cmp","indx","R">>, <<"Dop","imm","-">>, <<"Dcp","indx","R">>,
  <<"Cpy","zp","-">>, <<"Cmp","zp","-">>, <<"Dec","zp","-">>, <<"Dcp","zp","-">>,
  <<"Iny","imp","-">>, <<"Cmp","imm","-">>, <<"Dex","imp","-">>, <<"Axs","imm","-">>,
  <<"Cpy","abs","R">>, <<"Cmp","abs","R">>, <<"Dec","abs","R">>, <<"Dcp","abs","R">>>>

RowD == <<
  <<"Bne","rel","-">>, <<"Cmp","indy","R">>, <<"Kil","imp","-">>, <<"Dcp","indy","M">>,
  <<"Dop","zpx","-">>, <<"Cmp","zpx","-">>, <<"Dec","zpx","-">>, <<"Dcp","zpx","-">>,
  <<"Cld","imp","-">>, <<"Cmp","absy","R">>, <<"Nop","imp","-">>, <<"Dcp","absy","M">>,
  <<"Top","absx","R">>, <<"Cmp","absx","R">>, <<"Dec","absx","M">>, <<"Dcp","absx","M">>>>

RowE == <<
  <<"Cpx","imm","-">>, <<"Sbc","indx","R">>, <<"Dop","imm","-">>, <<"Isb","indx","R">>,
  <<"Cpx","zp","-">>, <<"Sbc","zp","-">>, <<"Inc","zp","-">>, <<"Isb","zp","-">>,
  <<"Inx","imp","-">>, <<"Sbc","imm","-">>, <<"Nop","imp","-">>, <<"Sbc","imm","-">>,
  <<"Cpx","abs","R">>, <<"Sbc","abs","R">>, <<"Inc","abs","R">>, <<"Isb","abs","R">>>>

RowF == <<
  <<"Beq","rel","-">>, <<"Sbc","indy","R">>, <<"Kil","imp","-">>, <<"Isb","indy","M">>,
  <<"Dop","zpx","-">>, <<"Sbc","zpx","-">>, <<"Inc","zpx","-">>, <<"Isb","zpx","-">>,
  <<"Sed","imp","-">>, <<"Sbc","absy","R">>, <<"Nop","imp","-">>, <<"Isb","absy","M">>,
  <<"Top","absx","R">>, <<"Sbc","absx","R">>, <<"Inc","absx","M">>, <<"Isb","absx","M">>>>

Rows == <<Row0, Row1, Row2, Row3, Row4, Row5, Row6, Row7,
          Row8, Row9, RowA, RowB, RowC, RowD, RowE, RowF>>

\* An opcode is decoded the same way whatever the state of the CPU is.
Decode == [o \in 0..255 |-> Rows[(o \div 16) + 1][(o % 16) + 1]]

Type(o) == Decode[o][1]
Mode(o) == Decode[o][2]
Access(o) == Decode[o][3]

TableLow == <<
  <<7,6,2,8,3,3,5,5,3,2,2,2,4,4,6,6>>,
  <<2,5,2,8,4,4,6,6,2,4,2,7,4,4,7,7>>,
  <<6,6,2,8,3,3,5,5,4,2,2,2,4,4,6,6>>,
  <<2,5,2,8,4,4,6,6,2,4,2,7,4,4,7,7>>,
  <<6,6,2,8,3,3,5,5,3,2,2,2,3,4,6,6>>,
  <<2,5,2,8,4,4,6,6,2,4,2,7,4,4,7,7>>,
  <<6,6,2,8,3,3,5,5,4,2,2,2,5,4,6,6>>,
  <<2,5,2,8,4,4,6,6,2,4,2,7,4,4,7,7>>>>

TableHigh == <<
  <<2,6,2,6,3,3,3,3,2,2,2,2,4,4,4,4>>,
  <<2,6,2,6,4,4,4,4,2,5,2,5,5,5,5,5>>,
  <<2,6,2,6,3,3,3,3,2,2,2,2,4,4,4,4>>,
  <<2,5,2,5,4,4,4,4,2,4,2,4,4,4,4,4>>,
  <<2,6,2,8,3,3,5,5,2,2,2,2,4,4,6,6>>,
  <<2,5,2,8,4,4,6,6,2,4,2,7,4,4,7,7>>,
  <<2,6,2,8,3,3,5,5,2,2,2,2,4,4,6,6>>,
  <<2,5,2,8,4,4,6,6,2,4,2,7,4,4,7,7>>>>

\* The cycles the table gives an opcode, without its penalties.
BaseCycles == [o \in 0..255 |-> (TableLow \o TableHigh)[(o \div 16) + 1][(o % 16) + 1]]

\* The bytes of an instruction: the table follows the mode, and calls JSR's absolute.
Bytes(o) == CASE Type(o) = "Jsr" -> 3
              [] Type(o) # "Jsr" /\ Mode(o) = "imp" -> 1
              [] Mode(o) \in {"imm", "zp", "zpx", "zpy", "indx", "indy", "rel"} -> 2
              [] Mode(o) \in {"abs", "absx", "absy", "ind"} -> 3

================================================================================

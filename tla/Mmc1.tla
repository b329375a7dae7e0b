--------------------------------- MODULE Mmc1 ---------------------------------
(***************************************************************************)
(* The MMC1 cartridge: a program loads its four registers one bit at a     *)
(* time, five writes a value, a write with bit 7 set starting over; the    *)
(* registers choose the banks of program and character memory that CPU and *)
(* PPU see, and the arrangement of the name tables.  ROM contents and      *)
(* program RAM are data; a read is the place in the ROM that it reads.     *)
(* Module Cartridges puts the mapper into the machine, with its initial    *)
(* state and its next-state relation.                                      *)
(***************************************************************************)
EXTENDS Naturals, Sequences

CONSTANTS
  PrgSizes,  \* sizes of program ROMs, in banks of 16K
  ChrSizes,  \* sizes of character memories, in banks of 4K
  MaxLoads   \* bound on the values loaded

ASSUME Mmc1Assumption ==
  PrgSizes \subseteq Nat \ {0, 1} /\ ChrSizes \subseteq Nat \ {0, 1} /\ MaxLoads \in Nat

Targets == {"control", "chr0", "chr1", "prg"} \* $8000, $A000, $C000, $E000

WordBits == 5

VARIABLES
  reg,      \* the four registers
  serial,   \* shift_register and write_count
  ppu,      \* the mirroring mode the PPU uses
  sent,     \* history: the bits written since the last value or reset
  loads,    \* history: values loaded
  steered   \* history: whether the control register was loaded since the last reset

vars == <<reg, serial, ppu, sent, loads, steered>>

-----------------------------------------------------------------------------
\* The fields of the control register.
PrgMode(r) == (r.control \div 4) % 4

ChrMode(r) == (r.control \div 16) % 2

Mirroring(r) ==
  CASE r.control % 4 = 2 -> "vertical" [] r.control % 4 = 3 -> "horizontal" [] OTHER -> "single"

\* control |= MMC1_DEFAULT_CONTROL
WithMode3_Unchanged(control) == control
WithMode3(control) == control - 4 * ((control \div 4) % 4) + 12

AtLeast1(n) == IF n = 0 THEN 1 ELSE n

\* get_prg_bank_offset, in banks of 16K, of a ROM of n banks for the lower or the upper half of
\* $8000-$FFFF.
PrgBank_NotWrapped(r, n, upper) ==
  CASE PrgMode(r) \in {0, 1} -> 2 * ((r.prg \div 2) % AtLeast1(n \div 2))
    [] PrgMode(r) = 2 -> IF upper THEN r.prg ELSE 0
    [] PrgMode(r) = 3 -> IF upper THEN n - 1 ELSE r.prg
PrgBank(r, n, upper) ==
  CASE PrgMode(r) \in {0, 1} -> 2 * ((r.prg \div 2) % AtLeast1(n \div 2))
    [] PrgMode(r) = 2 -> IF upper THEN r.prg % n ELSE 0
    [] PrgMode(r) = 3 -> IF upper THEN n - 1 ELSE r.prg % n

\* read_prg: the bank that a read in either half falls into.
PrgRead(r, n, upper) ==
  PrgBank(r, n, upper) + (IF PrgMode(r) <= 1 /\ upper THEN 1 ELSE 0)

\* get_chr_bank_offset and read_chr, in banks of 4K, for either half of $0000-$1FFF.
ChrRead(r, n, upper) ==
  IF ChrMode(r) = 0
    THEN 2 * ((r.chr0 \div 2) % AtLeast1(n \div 2)) + (IF upper THEN 1 ELSE 0)
    ELSE (IF upper THEN r.chr1 ELSE r.chr0) % n

-----------------------------------------------------------------------------
\* A new mapper.
NewReg == [control |-> 12, chr0 |-> 0, chr1 |-> 0, prg |-> 0]

\* reset_shift_register
Cleared_CountKept(s) == [s EXCEPT !.shift = 0]
Cleared(s) == [shift |-> 0, count |-> 0]

WriteReset ==
  /\ serial' = Cleared(serial)
  /\ reg' = [reg EXCEPT !.control = WithMode3(@)]
  /\ sent' = <<>> /\ steered' = FALSE
  /\ UNCHANGED <<ppu, loads>>

\* The value in the shift register after one more bit.
Shifted(s, bit) == s.shift \div 2 + 16 * bit

\* The register at the address of the fifth write gets the value; prg has four bits.
Loaded(r, target, value) == [r EXCEPT ![target] = IF target = "prg" THEN value % 16 ELSE value]

WriteBit(target, bit) ==
  IF serial.count + 1 < WordBits
    THEN /\ serial' = [shift |-> Shifted(serial, bit), count |-> serial.count + 1]
         /\ sent' = Append(sent, bit)
         /\ UNCHANGED <<reg, ppu, loads, steered>>
    ELSE /\ loads < MaxLoads /\ loads' = loads + 1
         /\ reg' = Loaded(reg, target, Shifted(serial, bit))
         /\ serial' = [shift |-> 0, count |-> 0]
         /\ sent' = <<>>
         /\ steered' = (steered \/ target = "control")
         /\ UNCHANGED ppu

-----------------------------------------------------------------------------
(* Properties. *)

\* The registers keep their widths; the shift register is empty between values.
TypeOK ==
  /\ reg \in [control : 0 .. 31, chr0 : 0 .. 31, chr1 : 0 .. 31, prg : 0 .. 15]
  /\ serial \in [shift : 0 .. 31, count : 0 .. WordBits - 1] /\ (serial.count = 0 => serial.shift = 0)
  /\ ppu \in {"single", "vertical", "horizontal", "four"}
  /\ sent \in Seq({0, 1}) /\ loads \in 0 .. MaxLoads /\ steered \in BOOLEAN

\* Five bits, the lowest first.
Word(b) == b[1] + 2 * b[2] + 4 * b[3] + 8 * b[4] + 16 * b[5]

\* The register that the fifth bit is written to gets the five bits sent since the last value or
\* reset, whatever the addresses of the first four; nothing else changes a register, but that a
\* reset sets the program mode.
LoadsWord ==
  [][\A target \in Targets, bit \in {0, 1} : WriteBit(target, bit) =>
       IF Len(sent) = WordBits - 1
         THEN LET w == Word(Append(sent, bit))
              IN  reg' = [reg EXCEPT ![target] = IF target = "prg" THEN w % 16 ELSE w]
         ELSE reg' = reg]_vars

\* From power on, and from any write with bit 7 set, until the control register is loaded the
\* upper half is the last bank, so that the program may bank the lower half under the running
\* code and the vectors.  The rest of the control register survives the reset.
UpperIsLast ==
  ~steered => \A n \in PrgSizes : PrgRead(reg, n, TRUE) = n - 1

KeepsControl ==
  [][WriteReset => /\ Mirroring(reg') = Mirroring(reg) /\ ChrMode(reg') = ChrMode(reg)
                   /\ \A n \in ChrSizes, upper \in BOOLEAN :
                        ChrRead(reg', n, upper) = ChrRead(reg, n, upper)]_vars

\* Every read falls into the ROM, in each mode and for each size, whatever the registers hold.
ReadsInside ==
  /\ \A n \in PrgSizes, upper \in BOOLEAN : PrgRead(reg, n, upper) < n
  /\ \A n \in ChrSizes, upper \in BOOLEAN : ChrRead(reg, n, upper) < n
=============================================================================

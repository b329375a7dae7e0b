------------------------------ MODULE Cartridges ------------------------------
(***************************************************************************)
(* From an iNES image to what CPU and PPU find at their addresses: the     *)
(* loader, the five mappers, and the memory controller and PPU memory that *)
(* carry an access to them.  Module Mmc1 is the mapper with state of its   *)
(* own; the others have one register, latch.                               *)
(*                                                                         *)
(* Reads of ROM are the bank of the image they read.  Of memories that can *)
(* be written it matters which cell an address reaches: cells has those    *)
(* that hold a byte of the program's.                                      *)
(***************************************************************************)
EXTENDS Mmc1, Integers, FiniteSets

CONSTANTS
  Images,      \* image files: header fields, the length of the file, and what it has behind its image
  Addresses,   \* addresses the CPU writes to
  Values,      \* bytes it writes there
  NameTables,  \* quarters of $2000-$3EFF the PPU writes to, from 0
  Colours,     \* palette entries, from $3F00
  MaxStores    \* bound on the cells written

\* Header fields are bytes, and there is a program.
ASSUME ImagesAssumption ==
  \A i \in Images : /\ {i.flags6, i.flags7, i.chr} \subseteq 0 .. 255 /\ i.prg \in 1 .. 255
                    /\ i.spare \in Int
                    /\ i.length = 16 + (IF i.flags6 % 8 >= 4 THEN 512 ELSE 0)
                                     + 16384 * i.prg + 8192 * i.chr + i.spare

ASSUME CartridgesAssumption ==
  /\ Addresses \subseteq Nat
  /\ Values \subseteq 0 .. 255
  /\ NameTables \subseteq 0 .. 7
  /\ Colours \subseteq 0 .. 31
  /\ MaxStores \in Nat

VARIABLES
  image,   \* the image the cartridge was made of
  latch,   \* the register of NROM (which has none), UxROM, CNROM and AxROM
  cells,   \* the memory cells that hold a byte that was written
  stored   \* history: the places written to, as the board was wired to them at the time

cartVars == <<image, latch, cells, stored>>

-----------------------------------------------------------------------------
(* Cartridge::new: the sections of the file and what the header says. *)
PrgSize == 16384
ChrSize == 8192

Bit(byte, weight) == (byte \div weight) % 2
MapperNumber(i) == (i.flags6 \div 16) + 16 * (i.flags7 \div 16)

HeaderMirroring(i) ==
  CASE Bit(i.flags6, 8) = 1 -> "four"
    [] Bit(i.flags6, 8) = 0 /\ Bit(i.flags6, 1) = 1 -> "vertical"
    [] OTHER -> "horizontal"

PrgStart(i) == 16 + 512 * Bit(i.flags6, 4)

ChrStart(i) == PrgStart(i) + PrgSize * i.prg
ImageEnd(i) == ChrStart(i) + ChrSize * i.chr

\* create_mapper
Kinds == [n \in {0, 1, 2, 3, 7} |-> CASE n = 0 -> "nrom" [] n = 1 -> "mmc1" [] n = 2 -> "uxrom"
                                      [] n = 3 -> "cnrom" [] n = 7 -> "axrom"]

Accepted(i) == i.magic /\ i.length >= ImageEnd(i) /\ MapperNumber(i) \in DOMAIN Kinds
Kind(i) == Kinds[MapperNumber(i)]

\* The program ROMs that the boards come in, as the comments on the mappers list them.
ASSUME BoardsAssumption ==
  \A i \in {j \in Images : Accepted(j)} :
    CASE Kind(i) \in {"nrom", "cnrom"} -> i.prg \in {1, 2}
      [] Kind(i) = "axrom" -> i.prg % 2 = 0 /\ i.prg <= 16
      [] Kind(i) = "mmc1" -> i.prg >= 2
      [] Kind(i) = "uxrom" -> TRUE

-----------------------------------------------------------------------------
(* The mappers of one register: the bank, of 16K, of a read in the lower    *)
(* (half 0) or the upper half (1) of $8000-$FFFF; r is the register.        *)
NromPrg(i, half) == half % i.prg

\* The bank register is not masked; past the end of the ROM reads return 0.
UxromPrg_UpperSwitches(i, r, half) == IF half = 1 THEN r % i.prg ELSE r
UxromPrg(i, r, half) == IF half = 1 THEN i.prg - 1 ELSE r

CnromPrg(i, half) == half % i.prg

AxromPrg(i, r, half) == 2 * ((r % 8) % AtLeast1(i.prg \div 2)) + half

PrgBankAt(i, r, half) ==
  CASE Kind(i) = "nrom" -> NromPrg(i, half)
    [] Kind(i) = "uxrom" -> UxromPrg(i, r, half)
    [] Kind(i) = "cnrom" -> CnromPrg(i, half)
    [] Kind(i) = "axrom" -> AxromPrg(i, r, half)
    [] Kind(i) = "mmc1" -> PrgRead(reg, i.prg, half = 1)

\* Pattern banks, of 8K.
CnromChr(i, r) == r % AtLeast1(i.chr)
ChrBankAt(i, r) == IF Kind(i) = "cnrom" THEN CnromChr(i, r) ELSE 0

\* NROM and MMC1 have pattern RAM if the image has no patterns, UxROM and AxROM always.
PatternRam(i) == Kind(i) \in {"uxrom", "axrom"} \/ (Kind(i) \in {"nrom", "mmc1"} /\ i.chr = 0)

\* get_mirroring of a new mapper
MapperMirroring(i) == CASE Kind(i) = "mmc1" -> Mirroring(NewReg)
                        [] Kind(i) = "axrom" -> "single"
                        [] OTHER -> HeaderMirroring(i)

-----------------------------------------------------------------------------
(* The PPU's memory *)
\* mirror_vram_address: table n of the eight quarters of $2000-$3FFF.
NameTable(mode, n) ==
  CASE mode = "vertical" -> n % 2
    [] mode = "horizontal" -> (n % 4) \div 2
    [] mode = "single" -> 0
    [] mode = "four" -> n % 4

\* mirror_palette_address
PaletteEntry(n) == IF n >= 16 /\ n % 4 = 0 THEN n - 16 ELSE n

-----------------------------------------------------------------------------
\* insert_cartridge: map_cartridge tells the PPU the mirroring of the new mapper.
CartInit ==
  /\ image \in {i \in Images : Accepted(i)}
  /\ latch = 0 /\ cells = {} /\ stored = {}
  /\ reg = NewReg /\ serial = [shift |-> 0, count |-> 0]
  /\ ppu = MapperMirroring(image)
  /\ sent = <<>> /\ loads = 0 /\ steered = FALSE

\* MemController::write: what of the cartridge is at an address.
Device(a) == CASE a >= 32768 -> "rom" [] a >= 24576 /\ a < 32768 -> "ram" [] OTHER -> "none"

\* MemController::read: what of the cartridge an address reads, with r in its register.
ReadCart(r, a) ==
  CASE Device(a) = "rom" -> <<"rom", PrgBankAt(image, r, (a - 32768) \div 16384)>>
    [] Device(a) = "ram" -> <<"program">>
    [] Device(a) = "none" -> <<"none">>

\* $8000, $A000, $C000, $E000
Target(a) == CASE a < 40960 -> "control"
               [] a >= 40960 /\ a < 49152 -> "chr0"
               [] a >= 49152 /\ a < 57344 -> "chr1"
               [] OTHER -> "prg"

Store(cell, place) ==
  /\ Cardinality(stored \cup {place}) <= MaxStores
  /\ cells' = cells \cup {cell} /\ stored' = stored \cup {place}

\* Program RAM, the mapper's register, or, below $6000, nothing of the cartridge.
WriteCart(a, v) ==
  CASE Device(a) = "ram" -> /\ Store(<<"program">>, <<"program">>)
                            /\ UNCHANGED <<vars, image, latch>>
    [] Device(a) = "rom" /\ Kind(image) = "mmc1" ->
         /\ IF v >= 128 THEN WriteReset ELSE WriteBit(Target(a), v % 2)
         /\ UNCHANGED cartVars
    [] Device(a) = "rom" /\ Kind(image) \in {"uxrom", "cnrom", "axrom"} ->
         /\ latch' = v
         /\ UNCHANGED <<vars, image, cells, stored>>
    [] OTHER -> UNCHANGED <<vars, cartVars>>

\* What the wiring of the board makes of a name table: the header's bits say it of the boards whose
\* wiring is fixed; MMC1's control register and bit 4 of AxROM's register switch it.
FixedTables == Kind(image) \in {"nrom", "uxrom", "cnrom"}

HeaderTable(n) ==
  CASE image.flags6 % 16 >= 8 -> <<"table", n % 2, (n \div 2) % 2>>
    [] image.flags6 % 16 \in {0, 2, 4, 6} -> <<"table", (n \div 2) % 2>>
    [] image.flags6 % 16 \in {1, 3, 5, 7} -> <<"table", n % 2>>

ControlTable(n) ==
  CASE reg.control % 4 = 2 -> <<"table", n % 2>>
    [] reg.control % 4 = 3 -> <<"table", (n \div 2) % 2>>
    [] OTHER -> <<"table", reg.control % 4>>

WiredTable(n) ==
  CASE Kind(image) = "axrom" -> <<"table", Bit(latch, 16)>>
    [] Kind(image) = "mmc1" -> ControlTable(n)
    [] FixedTables -> HeaderTable(n)

\* And of a palette entry.
WiredColour(n) == IF n % 4 = 0 THEN <<"backdrop", n % 16>> ELSE <<"colour", n>>

\* Writes of the PPU: write_nametable, write_palette, write_chr.
WriteNameTable(n) ==
  /\ Store(<<"vram", NameTable(ppu, n)>>, WiredTable(n))
  /\ UNCHANGED <<vars, image, latch>>

WritePalette(n) ==
  /\ Store(<<"palette", PaletteEntry(n)>>, WiredColour(n))
  /\ UNCHANGED <<vars, image, latch>>

WritePattern ==
  /\ PatternRam(image) /\ Kind(image) # "mmc1"
  /\ Store(<<"pattern">>, <<"pattern">>)
  /\ UNCHANGED <<vars, image, latch>>

\* Nes::reset clears the PPU's memory; it keeps the mirroring, and the mapper hears nothing.
ResetNes_Mirroring ==
  /\ cells' = {c \in cells : c[1] \notin {"vram", "palette"}}
  /\ stored' = {p \in stored : p[1] \notin {"table", "backdrop", "colour"}}
  /\ ppu' = "horizontal"
  /\ UNCHANGED <<reg, serial, sent, loads, steered, image, latch>>
ResetNes ==
  /\ cells' = {c \in cells : c[1] \notin {"vram", "palette"}}
  /\ stored' = {p \in stored : p[1] \notin {"table", "backdrop", "colour"}}
  /\ UNCHANGED <<vars, image, latch>>

CartNext == \/ \E a \in Addresses, v \in Values : WriteCart(a, v)
            \/ \E n \in NameTables : WriteNameTable(n)
            \/ \E n \in Colours : WritePalette(n)
            \/ WritePattern
            \/ ResetNes

CartSpec == CartInit /\ [][CartNext]_<<vars, cartVars>>

-----------------------------------------------------------------------------
(* Properties. *)

\* Where in the file a read of the program or of the patterns comes from, and the banks of both,
\* counted from the end of the image.
PrgFrom(r, half) == PrgStart(image) + PrgSize * ReadCart(r, 32768 + 16384 * half)[2]
ChrFrom(r) == ChrStart(image) + ChrSize * ChrBankAt(image, r)
PrgBankOf(n) == image.length - image.spare - ChrSize * image.chr - PrgSize * n
ChrBankOf(n) == image.length - image.spare - ChrSize * n
PrgBanks == {PrgBankOf(n) : n \in 1 .. image.prg}
ChrBanks == {ChrBankOf(n) : n \in 1 .. image.chr}

\* However the header, the trainer, the mapper and its register combine, a read comes from the
\* part of the file that holds the program or the patterns; boards with a fixed upper half have
\* the last bank, with the vectors, there whatever was written and after a reset; and every bank
\* of the image can be reached.  A UxROM program alone can select a bank that is not there.
ImageAsWired ==
  /\ Kind(image) = "mmc1" \/ PrgBanks \subseteq {PrgFrom(r, half) : r \in 0 .. 255, half \in {0, 1}}
  /\ \A half \in {0, 1} :
       \/ PrgFrom(latch, half) \in PrgBanks
       \/ Kind(image) = "uxrom" /\ half = 0 /\ latch >= image.prg
  /\ Kind(image) \in {"nrom", "uxrom", "cnrom"} => PrgFrom(latch, 1) = PrgBankOf(1)
  /\ Kind(image) = "cnrom" /\ image.chr > 0 => {ChrFrom(r) : r \in 0 .. 255} = ChrBanks

\* A byte written to name table n is read through exactly those that the board wires to it now.
TableAsWired(n) == <<"vram", NameTable(ppu, n)>> \in cells <=> WiredTable(n) \in stored

\* A byte written through one address is read through exactly the addresses that the board wires
\* to it: name tables as the header says, for the boards that do not switch them; the eight
\* backdrop entries of the palette in pairs, pattern RAM and program RAM, for every board.  The
\* PPU's memory forgets it at a reset, the cartridge's does not, and no bank that is selected
\* moves it.  (Of the boards that switch their name tables it does not hold: MirroringFollows.)
CellsAsWired ==
  /\ FixedTables => \A n \in 0 .. 7 : TableAsWired(n)
  /\ \A n \in 0 .. 31 : <<"palette", PaletteEntry(n)>> \in cells <=> WiredColour(n) \in stored
  /\ \A a \in Addresses : Device(a) = "ram" =>
       (ReadCart(latch, a) \in cells <=> <<"program">> \in stored)
  /\ <<"pattern">> \in cells <=> <<"pattern">> \in stored

\* What the documentation of MMC1 and AxROM says: their register switches the name tables while the
\* program runs, so that what is drawn is seen where the register has it now and nowhere else.
MirroringFollows == ~FixedTables => \A n \in 0 .. 7 : TableAsWired(n)
=============================================================================

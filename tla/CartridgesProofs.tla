--------------------------- MODULE CartridgesProofs ---------------------------
(***************************************************************************)
(* For every set of images that real boards have, every address and every  *)
(* byte written: the MMC1's serial protocol and its banks, in the machine  *)
(* that it is part of; the wiring of the memories; and the section of the  *)
(* file that each read comes from.                                         *)
(***************************************************************************)
EXTENDS Cartridges, SequenceTheorems, TLAPS

\* The shift register holds the bits sent so far in its upper places.
SerialInv ==
  /\ serial.count = Len(sent)
  /\ Len(sent) = 0 => serial.shift = 0
  /\ Len(sent) = 1 => serial.shift = 16 * sent[1]
  /\ Len(sent) = 2 => serial.shift = 8 * sent[1] + 16 * sent[2]
  /\ Len(sent) = 3 => serial.shift = 4 * sent[1] + 8 * sent[2] + 16 * sent[3]
  /\ Len(sent) = 4 => serial.shift = 2 * sent[1] + 4 * sent[2] + 8 * sent[3] + 16 * sent[4]

\* Until the control register is loaded, its program mode is 3.
SteeredInv == ~steered => PrgMode(reg) = 3

Inv == TypeOK /\ SerialInv /\ SteeredInv

-----------------------------------------------------------------------------
\* A register of five bits shifted by one, with a bit put on top, has five bits again.
LEMMA ShiftedType ==
  ASSUME NEW s, s.shift \in 0 .. 31, NEW bit \in {0, 1}
  PROVE  Shifted(s, bit) \in 0 .. 31
<1>1. s.shift \div 2 \in 0 .. 15
  OBVIOUS
<1> QED
  BY <1>1 DEF Shifted

\* Setting mode 3 leaves the register its width and its other fields.
LEMMA Mode3 ==
  ASSUME NEW c \in 0 .. 31
  PROVE  /\ WithMode3(c) \in 0 .. 31
         /\ (WithMode3(c) \div 4) % 4 = 3
         /\ WithMode3(c) % 4 = c % 4
         /\ (WithMode3(c) \div 16) % 2 = (c \div 16) % 2
BY DEF WithMode3

\* The mirroring of a new mapper is one of the PPU's four.
LEMMA FourModes ==
  ASSUME NEW i
  PROVE  MapperMirroring(i) \in {"single", "vertical", "horizontal", "four"}
<1>1. HeaderMirroring(i) \in {"vertical", "horizontal", "four"}
  BY DEF HeaderMirroring
<1>2. Mirroring(NewReg) \in {"single", "vertical", "horizontal"}
  BY DEF Mirroring
<1> QED
  BY <1>1, <1>2 DEF MapperMirroring

\* A mapper starts with empty shift register and in program mode 3.
LEMMA InitInv == CartInit => Inv
<1> SUFFICES ASSUME CartInit PROVE Inv
  OBVIOUS
<1>1. (NewReg.control \div 4) % 4 = 3
  BY DEF NewReg
<1>2. TypeOK
  <2>1. reg \in [control : 0 .. 31, chr0 : 0 .. 31, chr1 : 0 .. 31, prg : 0 .. 15]
    BY DEF CartInit, NewReg
  <2>2. serial \in [shift : 0 .. 31, count : 0 .. WordBits - 1]
    BY DEF CartInit, WordBits
  <2>3. steered \in BOOLEAN
    BY Zenon DEF CartInit
  <2>4. serial.shift = 0 /\ sent \in Seq({0, 1}) /\ loads \in 0 .. MaxLoads
    BY Mmc1Assumption DEF CartInit, Mmc1Assumption
  <2>5. ppu \in {"single", "vertical", "horizontal", "four"}
    BY FourModes DEF CartInit
  <2> QED
    BY <2>1, <2>2, <2>3, <2>4, <2>5 DEF TypeOK
<1>3. SerialInv
  BY DEF CartInit, SerialInv
<1>4. SteeredInv
  BY <1>1 DEF CartInit, SteeredInv, PrgMode
<1> QED
  BY <1>2, <1>3, <1>4 DEF Inv

\* A bit before the fifth joins the others.
LEMMA BitJoins ==
  ASSUME Inv, NEW target \in Targets, NEW bit \in {0, 1}, WriteBit(target, bit),
         serial.count + 1 < WordBits
  PROVE  Inv'
<1>1. /\ serial' = [shift |-> Shifted(serial, bit), count |-> serial.count + 1]
      /\ sent' = Append(sent, bit)
      /\ UNCHANGED <<reg, ppu, loads, steered>>
  BY DEF WriteBit
<1>2. /\ sent' \in Seq({0, 1})
      /\ Len(sent') = Len(sent) + 1 /\ sent'[Len(sent) + 1] = bit
      /\ \A i \in 1 .. Len(sent) : sent'[i] = sent[i] /\ sent[i] \in {0, 1}
  BY <1>1 DEF Inv, TypeOK
<1>3. serial.count \in 0 .. 3 /\ serial.shift \in 0 .. 31
  BY DEF Inv, TypeOK, WordBits
<1>4. TypeOK'
  <2>1. serial' \in [shift : 0 .. 31, count : 0 .. WordBits - 1]
    <3>1. Shifted(serial, bit) \in 0 .. 31
      BY <1>3, ShiftedType
    <3>2. serial.count + 1 \in 0 .. WordBits - 1
      BY <1>3 DEF WordBits
    <3> QED
      BY <1>1, <3>1, <3>2
  <2>2. serial'.count # 0
    BY <1>1, <1>3
  <2> QED
    BY <1>1, <1>2, <2>1, <2>2 DEF Inv, TypeOK
<1>5. SerialInv'
  <2>1. serial'.count = Len(sent') /\ serial'.shift = serial.shift \div 2 + 16 * bit
    BY <1>1, <1>2 DEF Inv, SerialInv, Shifted
  <2>2. CASE Len(sent) = 0
    BY <1>2, <2>1, <2>2 DEF Inv, SerialInv
  <2>3. CASE Len(sent) = 1
    BY <1>2, <2>1, <2>3 DEF Inv, SerialInv
  <2>4. CASE Len(sent) = 2
    BY <1>2, <2>1, <2>4 DEF Inv, SerialInv
  <2>5. CASE Len(sent) = 3
    BY <1>2, <2>1, <2>5 DEF Inv, SerialInv
  <2> QED
    BY <1>3, <2>2, <2>3, <2>4, <2>5 DEF Inv, SerialInv
<1>6. SteeredInv'
  BY <1>1 DEF Inv, SteeredInv, PrgMode
<1> QED
  BY <1>4, <1>5, <1>6 DEF Inv

\* The value that the fifth bit completes is the word sent.
LEMMA FifthBit ==
  ASSUME Inv, NEW bit \in {0, 1}, Len(sent) = WordBits - 1
  PROVE  Shifted(serial, bit) = Word(Append(sent, bit))
<1>1. /\ Append(sent, bit)[5] = bit
      /\ \A i \in 1 .. 4 : Append(sent, bit)[i] = sent[i] /\ sent[i] \in {0, 1}
  <2>1. sent \in Seq({0, 1}) /\ Len(sent) = 4
    BY DEF Inv, TypeOK, WordBits
  <2>2. \A i \in 1 .. 4 : sent[i] \in {0, 1}
    BY <2>1, ElementOfSeq
  <2> DEFINE s == Append(sent, bit)
  <2>3. /\ \A i \in 1 .. Len(sent) : s[i] = sent[i]
        /\ s[Len(sent) + 1] = bit
    BY <2>1, AppendProperties, Zenon
  <2>4. s[5] = bit
    <3>1. Len(sent) + 1 = 5
      <4>1. 4 + 1 = 5
        OBVIOUS
      <4> QED
        BY <2>1, <4>1, Zenon
    <3> QED
      BY <2>3, <3>1, Zenon
  <2>5. \A i \in 1 .. 4 : s[i] = sent[i]
    BY <2>1, <2>3, Zenon
  <2> QED
    BY <2>2, <2>4, <2>5, Zenon
<1>2. serial.shift = 2 * sent[1] + 4 * sent[2] + 8 * sent[3] + 16 * sent[4]
  BY DEF Inv, SerialInv, WordBits
<1>3. serial.shift \div 2 = sent[1] + 2 * sent[2] + 4 * sent[3] + 8 * sent[4]
  <2>1. ASSUME NEW a \in {0, 1}, NEW b \in {0, 1}, NEW c \in {0, 1}, NEW d \in {0, 1}
        PROVE  (2 * a + 4 * b + 8 * c + 16 * d) \div 2 = a + 2 * b + 4 * c + 8 * d
    OBVIOUS
  <2>2. /\ sent[1] \in {0, 1} /\ sent[2] \in {0, 1} /\ sent[3] \in {0, 1} /\ sent[4] \in {0, 1}
    BY <1>1
  <2> QED
    BY <1>2, <2>1, <2>2
<1>4. /\ Append(sent, bit)[1] = sent[1] /\ Append(sent, bit)[2] = sent[2]
      /\ Append(sent, bit)[3] = sent[3] /\ Append(sent, bit)[4] = sent[4]
      /\ sent[1] \in {0, 1} /\ sent[2] \in {0, 1} /\ sent[3] \in {0, 1} /\ sent[4] \in {0, 1}
  <2>1. 1 \in 1 .. 4 /\ 2 \in 1 .. 4 /\ 3 \in 1 .. 4 /\ 4 \in 1 .. 4
    OBVIOUS
  <2> QED
    BY <1>1, <2>1, Zenon
<1>5. Word(Append(sent, bit)) =
        sent[1] + 2 * sent[2] + 4 * sent[3] + 8 * sent[4] + 16 * bit
  BY <1>1, <1>4 DEF Word
<1> QED
  BY <1>3, <1>5 DEF Shifted

\* The registers keep their widths when one of them is loaded.
LEMMA LoadedType ==
  ASSUME NEW r \in [control : 0 .. 31, chr0 : 0 .. 31, chr1 : 0 .. 31, prg : 0 .. 15],
         NEW target \in Targets, NEW value \in 0 .. 31
  PROVE  /\ Loaded(r, target, value) \in
              [control : 0 .. 31, chr0 : 0 .. 31, chr1 : 0 .. 31, prg : 0 .. 15]
         /\ target # "control" => Loaded(r, target, value).control = r.control
<1>1. value % 16 \in 0 .. 15
  OBVIOUS
<1>2. CASE target = "prg"
  BY <1>1, <1>2 DEF Loaded
<1>3. CASE target # "prg"
  BY <1>3 DEF Loaded, Targets
<1> QED
  BY <1>2, <1>3

\* The fifth bit loads a register and empties the shift register.
LEMMA WordLoads ==
  ASSUME Inv, NEW target \in Targets, NEW bit \in {0, 1}, WriteBit(target, bit),
         ~(serial.count + 1 < WordBits)
  PROVE  Inv'
<1>1. /\ loads < MaxLoads /\ loads' = loads + 1
      /\ reg' = Loaded(reg, target, Shifted(serial, bit))
      /\ serial' = [shift |-> 0, count |-> 0] /\ sent' = <<>>
      /\ steered' = (steered \/ target = "control") /\ ppu' = ppu
  BY DEF WriteBit
<1>2. Shifted(serial, bit) \in 0 .. 31
  BY ShiftedType DEF Inv, TypeOK
<1>3. /\ reg' \in [control : 0 .. 31, chr0 : 0 .. 31, chr1 : 0 .. 31, prg : 0 .. 15]
      /\ target # "control" => reg'.control = reg.control
  BY <1>1, <1>2, LoadedType DEF Inv, TypeOK
<1>4. TypeOK'
  BY <1>1, <1>3, Mmc1Assumption DEF Inv, TypeOK, WordBits, Mmc1Assumption
<1>5. SerialInv'
  BY <1>1 DEF SerialInv
<1>6. SteeredInv'
  BY <1>1, <1>3 DEF Inv, TypeOK, SteeredInv, PrgMode
<1> QED
  BY <1>4, <1>5, <1>6 DEF Inv

\* A reset write empties the shift register and sets the program mode.
LEMMA ResetInv == ASSUME Inv, WriteReset PROVE Inv'
<1>1. /\ reg' = [reg EXCEPT !.control = WithMode3(reg.control)]
      /\ serial' = [shift |-> 0, count |-> 0] /\ sent' = <<>>
      /\ steered' = FALSE /\ ppu' = ppu /\ loads' = loads
  BY DEF WriteReset, Cleared
<1>2. WithMode3(reg.control) \in 0 .. 31 /\ (WithMode3(reg.control) \div 4) % 4 = 3
  BY Mode3 DEF Inv, TypeOK
<1>3. /\ reg'.control = WithMode3(reg.control)
      /\ reg' \in [control : 0 .. 31, chr0 : 0 .. 31, chr1 : 0 .. 31, prg : 0 .. 15]
  BY <1>1, <1>2 DEF Inv, TypeOK
<1>4. TypeOK'
  <2>1. serial' \in [shift : 0 .. 31, count : 0 .. WordBits - 1] /\ serial'.shift = 0
    BY <1>1 DEF WordBits
  <2>2. sent' \in Seq({0, 1})
    BY <1>1
  <2>3. steered' \in BOOLEAN
    BY <1>1, Zenon
  <2> QED
    BY <1>1, <1>3, <2>1, <2>2, <2>3 DEF Inv, TypeOK
<1>5. SerialInv' /\ SteeredInv'
  BY <1>1, <1>2, <1>3 DEF SerialInv, SteeredInv, PrgMode
<1> QED
  BY <1>4, <1>5 DEF Inv

\* Values are bytes, and addresses those of the buses.
LEMMA BytesWritten ==
  /\ Values \subseteq 0 .. 255
  /\ NameTables \subseteq 0 .. 7
  /\ Colours \subseteq 0 .. 31
BY CartridgesAssumption DEF CartridgesAssumption

\* The mapper hears of a step as a reset write, as a bit, or not at all.
LEMMA StepIs ==
  ASSUME [CartNext]_<<vars, cartVars>>
  PROVE  \/ UNCHANGED vars
         \/ WriteReset
         \/ \E target \in Targets, bit \in {0, 1} : WriteBit(target, bit)
<1>1. ASSUME NEW a \in Addresses, NEW v \in Values, WriteCart(a, v)
      PROVE  \/ UNCHANGED vars
             \/ WriteReset
             \/ \E target \in Targets, bit \in {0, 1} : WriteBit(target, bit)
  <2>1. v % 2 \in {0, 1}
    <3>1. v \in 0 .. 255
      BY BytesWritten
    <3> QED
      BY <3>1
  <2>2. Target(a) \in Targets
    BY DEF Target, Targets
  <2>3. \/ UNCHANGED vars
        \/ IF v >= 128 THEN WriteReset ELSE WriteBit(Target(a), v % 2)
    BY <1>1, Zenon DEF WriteCart
  <2> QED
    BY <2>1, <2>2, <2>3, Zenon
<1>2. ASSUME NEW n \in NameTables, WriteNameTable(n) PROVE UNCHANGED vars
  BY <1>2 DEF WriteNameTable
<1>3. ASSUME NEW n \in Colours, WritePalette(n) PROVE UNCHANGED vars
  BY <1>3 DEF WritePalette
<1>4. CASE WritePattern
  BY <1>4 DEF WritePattern
<1>5. CASE ResetNes
  BY <1>5 DEF ResetNes
<1>6. CASE UNCHANGED <<vars, cartVars>>
  BY <1>6
<1> QED
  BY <1>1, <1>2, <1>3, <1>4, <1>5, <1>6, Zenon DEF CartNext

\* Every step preserves the mapper's invariant.
LEMMA StepInv == Inv /\ [CartNext]_<<vars, cartVars>> => Inv'
<1> SUFFICES ASSUME Inv, [CartNext]_<<vars, cartVars>> PROVE Inv'
  OBVIOUS
<1>1. CASE WriteReset
  BY <1>1, ResetInv
<1>2. ASSUME NEW target \in Targets, NEW bit \in {0, 1}, WriteBit(target, bit)
      PROVE  Inv'
  BY <1>2, BitJoins, WordLoads
<1>3. CASE UNCHANGED vars
  BY <1>3 DEF vars, Inv, TypeOK, SerialInv, SteeredInv, PrgMode
<1> QED
  BY <1>1, <1>2, <1>3, StepIs, Zenon

LEMMA InvAlways == CartSpec => []Inv
BY InitInv, StepInv, PTL DEF CartSpec

\* Type correctness: the registers keep their widths.
THEOREM TypeCorrectness == CartSpec => []TypeOK
<1>1. Inv => TypeOK
  BY DEF Inv
<1> QED
  BY <1>1, InvAlways, PTL

-----------------------------------------------------------------------------
\* A step loads the addressed register with the word sent, or changes none.
LEMMA StepLoadsWord ==
  ASSUME Inv, NEW target \in Targets, NEW bit \in {0, 1}, WriteBit(target, bit)
  PROVE  IF Len(sent) = WordBits - 1
           THEN LET w == Word(Append(sent, bit))
                IN  reg' = [reg EXCEPT ![target] = IF target = "prg" THEN w % 16 ELSE w]
           ELSE reg' = reg
<1>1. CASE Len(sent) = WordBits - 1
  <2>1. ~(serial.count + 1 < WordBits)
    BY <1>1 DEF Inv, SerialInv, WordBits
  <2>2. reg' = Loaded(reg, target, Shifted(serial, bit))
    BY <2>1 DEF WriteBit
  <2>3. Shifted(serial, bit) = Word(Append(sent, bit))
    BY <1>1, FifthBit
  <2> QED
    BY <1>1, <2>2, <2>3 DEF Loaded
<1>2. CASE Len(sent) # WordBits - 1
  <2>1. serial.count \in 0 .. 4
    BY DEF Inv, TypeOK, WordBits
  <2>2. serial.count # 4
    BY <1>2 DEF Inv, SerialInv, WordBits
  <2>3. serial.count + 1 < WordBits
    BY <2>1, <2>2 DEF WordBits
  <2> QED
    BY <1>2, <2>3 DEF WriteBit
<1> QED
  BY <1>1, <1>2

\* The serial protocol: five bits, lowest first, arrive in the register the fifth is written to,
\* whatever was interrupted before.
THEOREM SerialProtocol == CartSpec => LoadsWord
<1>1. Inv /\ [CartNext]_<<vars, cartVars>> =>
        [\A target \in Targets, bit \in {0, 1} : WriteBit(target, bit) =>
           IF Len(sent) = WordBits - 1
             THEN LET w == Word(Append(sent, bit))
                  IN  reg' = [reg EXCEPT ![target] = IF target = "prg" THEN w % 16 ELSE w]
             ELSE reg' = reg]_vars
  BY StepLoadsWord
<1> QED
  BY <1>1, InvAlways, PTL DEF CartSpec, LoadsWord

\* A reset write, and power on, bring the last bank under the vectors, for every size of ROM.
THEOREM VectorsInLastBank == CartSpec => []UpperIsLast
<1>1. Inv => UpperIsLast
  BY Mmc1Assumption DEF Inv, SteeredInv, UpperIsLast, PrgRead, PrgBank, Mmc1Assumption
<1> QED
  BY <1>1, InvAlways, PTL

-----------------------------------------------------------------------------
\* The larger of two banks that a 32K mode (or the 8K mode) switches together is inside.
LEMMA PairInside ==
  ASSUME NEW n \in Nat \ {0, 1}, NEW b \in Nat
  PROVE  /\ 2 * (b % AtLeast1(n \div 2)) \in Nat
         /\ 2 * (b % AtLeast1(n \div 2)) + 1 < n
<1>1. n \div 2 \in Nat \ {0} /\ 2 * (n \div 2) <= n
  OBVIOUS
<1>2. AtLeast1(n \div 2) = n \div 2
  BY <1>1 DEF AtLeast1
<1>3. b % (n \div 2) \in 0 .. (n \div 2) - 1
  BY <1>1
<1> QED
  BY <1>1, <1>2, <1>3

\* Every read of the program falls into the ROM.
LEMMA PrgInside ==
  ASSUME TypeOK, NEW n \in Nat \ {0, 1}, NEW upper \in BOOLEAN
  PROVE  PrgRead(reg, n, upper) \in 0 .. n - 1
<1>1. reg.prg \in Nat /\ reg.prg \div 2 \in Nat
  <2>1. reg.prg \in 0 .. 15
    BY DEF TypeOK
  <2> QED
    BY <2>1
<1>2. PrgMode(reg) \in 0 .. 3
  <2>1. reg.control \in 0 .. 31
    BY DEF TypeOK
  <2>2. reg.control \div 4 \in Nat
    BY <2>1
  <2> QED
    BY <2>2 DEF PrgMode
<1>3. CASE PrgMode(reg) \in {0, 1}
  <2>1. PrgBank(reg, n, upper) = 2 * ((reg.prg \div 2) % AtLeast1(n \div 2))
    BY <1>3 DEF PrgBank
  <2> QED
    BY <1>1, <1>3, <2>1, PairInside DEF PrgRead
<1>4. CASE PrgMode(reg) \in {2, 3}
  <2>1. reg.prg % n \in 0 .. n - 1
    BY <1>1
  <2>2. PrgBank(reg, n, upper) \in 0 .. n - 1
    BY <1>1, <1>4, <2>1 DEF PrgBank
  <2> QED
    BY <1>1, <1>4, <2>2 DEF PrgRead
<1> QED
  BY <1>2, <1>3, <1>4

\* Every read of the character memory falls into it.
LEMMA ChrInside ==
  ASSUME TypeOK, NEW n \in ChrSizes, NEW upper \in BOOLEAN
  PROVE  ChrRead(reg, n, upper) < n
<1>1. /\ n \in Nat \ {0, 1} /\ reg.chr0 \in Nat /\ reg.chr1 \in Nat /\ reg.chr0 \div 2 \in Nat
  <2>1. reg.chr0 \in 0 .. 31 /\ reg.chr1 \in 0 .. 31
    BY DEF TypeOK
  <2> QED
    BY <2>1, Mmc1Assumption DEF Mmc1Assumption
<1>2. CASE ChrMode(reg) = 0
  <2>1. /\ 2 * ((reg.chr0 \div 2) % AtLeast1(n \div 2)) \in Nat
        /\ 2 * ((reg.chr0 \div 2) % AtLeast1(n \div 2)) + 1 < n
    BY <1>1, PairInside
  <2> QED
    BY <1>1, <1>2, <2>1 DEF ChrRead
<1>3. CASE ChrMode(reg) # 0
  <2>1. reg.chr0 % n \in 0 .. n - 1 /\ reg.chr1 % n \in 0 .. n - 1
    BY <1>1
  <2> QED
    BY <1>1, <1>3, <2>1 DEF ChrRead
<1> QED
  BY <1>2, <1>3

\* Whatever a program writes, no read of the CPU or the PPU leaves the ROM, for every size of two
\* banks or more, a power of two or not.
THEOREM BanksInside == CartSpec => []ReadsInside
<1>1. TypeOK => ReadsInside
  <2> SUFFICES ASSUME TypeOK PROVE ReadsInside
    OBVIOUS
  <2>1. \A n \in PrgSizes, upper \in BOOLEAN : PrgRead(reg, n, upper) < n
    <3> SUFFICES ASSUME NEW n \in PrgSizes, NEW upper \in BOOLEAN PROVE PrgRead(reg, n, upper) < n
      OBVIOUS
    <3>1. n \in Nat \ {0, 1}
      BY Mmc1Assumption DEF Mmc1Assumption
    <3> QED
      BY <3>1, PrgInside
  <2> QED
    BY <2>1, ChrInside DEF ReadsInside
<1> QED
  BY <1>1, TypeCorrectness, PTL

\* A reset write leaves mirroring and character banks as they were.
THEOREM ResetKeepsRest == CartSpec => KeepsControl
<1> DEFINE Kept == /\ Mirroring(reg') = Mirroring(reg) /\ ChrMode(reg') = ChrMode(reg)
                   /\ \A n \in ChrSizes, upper \in BOOLEAN :
                        ChrRead(reg', n, upper) = ChrRead(reg, n, upper)
<1>1. TypeOK /\ [CartNext]_<<vars, cartVars>> => [WriteReset => Kept]_vars
  <2> SUFFICES ASSUME TypeOK, WriteReset PROVE Kept
    OBVIOUS
  <2>1. /\ reg'.control = WithMode3(reg.control)
        /\ reg'.chr0 = reg.chr0 /\ reg'.chr1 = reg.chr1
    BY DEF WriteReset, TypeOK
  <2>2. /\ WithMode3(reg.control) % 4 = reg.control % 4
        /\ (WithMode3(reg.control) \div 16) % 2 = (reg.control \div 16) % 2
    BY Mode3 DEF TypeOK
  <2>3. Mirroring(reg') = Mirroring(reg) /\ ChrMode(reg') = ChrMode(reg)
    BY <2>1, <2>2 DEF Mirroring, ChrMode
  <2> QED
    BY <2>1, <2>3 DEF ChrRead
<1> QED
  BY <1>1, TypeCorrectness, PTL DEF CartSpec, KeepsControl

-----------------------------------------------------------------------------
(* The wiring of the memories. *)

\* What does not change, but for the register, while a cartridge is in.
Board ==
  /\ image \in Images /\ Accepted(image)
  /\ ppu = MapperMirroring(image)
  /\ latch \in 0 .. 255

\* A byte of program RAM lies in one cell, whether or not the program writes any.
ProgramWired == <<"program">> \in cells <=> <<"program">> \in stored

CartInv == Inv /\ Board /\ CellsAsWired /\ ProgramWired

\* An accepted image is of one of the five mappers.
LEMMA FiveKinds ==
  ASSUME NEW i, Accepted(i)
  PROVE  Kind(i) \in {"nrom", "mmc1", "uxrom", "cnrom", "axrom"}
<1>1. MapperNumber(i) \in {0, 1, 2, 3, 7}
  BY DEF Accepted, Kinds
<1> QED
  BY <1>1 DEF Kind, Kinds

\* An image with what the header's bytes can hold.
LEMMA ImageHas ==
  ASSUME NEW i \in Images
  PROVE  /\ i.flags6 \in 0 .. 255 /\ i.flags7 \in 0 .. 255
         /\ i.prg \in 1 .. 255 /\ i.chr \in 0 .. 255 /\ i.spare \in Int
         /\ i.length = 16 + (IF i.flags6 % 8 >= 4 THEN 512 ELSE 0)
                          + 16384 * i.prg + 8192 * i.chr + i.spare
BY ImagesAssumption DEF ImagesAssumption

\* The name table that an address reaches, and the one a board that does not switch them wires it
\* to, in the three modes that a header knows.
LEMMA TableIs ==
  ASSUME Board, FixedTables
  PROVE  \/ \A n \in 0 .. 7 : /\ NameTable(ppu, n) = n % 4
                              /\ WiredTable(n) = <<"table", n % 2, (n \div 2) % 2>>
         \/ \A n \in 0 .. 7 : NameTable(ppu, n) = n % 2 /\ WiredTable(n) = <<"table", n % 2>>
         \/ \A n \in 0 .. 7 : /\ NameTable(ppu, n) = (n % 4) \div 2
                              /\ WiredTable(n) = <<"table", (n \div 2) % 2>>
<1> DEFINE f == image.flags6
<1>1. f \in 0 .. 255
  BY ImageHas DEF Board
<1>2. ppu = HeaderMirroring(image)
  BY DEF Board, MapperMirroring, FixedTables
<1>3. \A n : WiredTable(n) = HeaderTable(n)
  BY DEF WiredTable, FixedTables
<1>4. CASE f % 16 >= 8
  <2>1. ppu = "four"
    BY <1>1, <1>2, <1>4 DEF HeaderMirroring, Bit
  <2> QED
    BY <1>3, <1>4, <2>1 DEF NameTable, HeaderTable
<1>5. CASE f % 16 \in {0, 2, 4, 6}
  <2>1. ppu = "horizontal"
    BY <1>1, <1>2, <1>5 DEF HeaderMirroring, Bit
  <2> QED
    BY <1>3, <1>5, <2>1 DEF NameTable, HeaderTable
<1>6. CASE f % 16 \in {1, 3, 5, 7}
  <2>1. ppu = "vertical"
    BY <1>1, <1>2, <1>6 DEF HeaderMirroring, Bit
  <2> QED
    BY <1>3, <1>6, <2>1 DEF NameTable, HeaderTable
<1> QED
  BY <1>1, <1>4, <1>5, <1>6

\* Two addresses reach the same name table if and only if such a board wires them to the same.
LEMMA TablesApart ==
  ASSUME Board, FixedTables, NEW m \in 0 .. 7, NEW n \in 0 .. 7
  PROVE  NameTable(ppu, m) = NameTable(ppu, n) <=> WiredTable(m) = WiredTable(n)
<1>1. m % 4 = n % 4 <=> m % 2 = n % 2 /\ (m \div 2) % 2 = (n \div 2) % 2
  OBVIOUS
<1>2. (m % 4) \div 2 = (n % 4) \div 2 <=> (m \div 2) % 2 = (n \div 2) % 2
  OBVIOUS
<1> QED
  BY <1>1, <1>2, TableIs

\* Whatever a board does with its name tables, they are name tables.
LEMMA TableKind ==
  ASSUME Board, NEW n
  PROVE  WiredTable(n)[1] = "table"
<1>1. HeaderTable(n)[1] = "table"
  <2>1. image.flags6 \in 0 .. 255
    BY ImageHas DEF Board
  <2>2. image.flags6 % 16 >= 8 \/ image.flags6 % 16 \in {0, 2, 4, 6} \/ image.flags6 % 16 \in {1, 3, 5, 7}
    BY <2>1
  <2> QED
    BY <2>2 DEF HeaderTable
<1>2. ControlTable(n)[1] = "table"
  BY DEF ControlTable
<1>3. Kind(image) = "axrom" \/ Kind(image) = "mmc1" \/ FixedTables
  BY FiveKinds DEF Board, FixedTables
<1>4. <<"table", Bit(latch, 16)>>[1] = "table"
  OBVIOUS
<1> QED
  BY <1>1, <1>2, <1>3, <1>4 DEF WiredTable, FixedTables

\* The same of the entries of the palette.
LEMMA ColoursApart ==
  ASSUME NEW m \in 0 .. 31, NEW n \in 0 .. 31
  PROVE  /\ PaletteEntry(m) = PaletteEntry(n) <=> WiredColour(m) = WiredColour(n)
         /\ WiredColour(n)[1] \in {"backdrop", "colour"}
<1>1. CASE m % 4 = 0 /\ n % 4 = 0
  BY <1>1 DEF PaletteEntry, WiredColour
<1>2. CASE m % 4 = 0 /\ n % 4 # 0
  BY <1>2 DEF PaletteEntry, WiredColour
<1>3. CASE m % 4 # 0 /\ n % 4 = 0
  BY <1>3 DEF PaletteEntry, WiredColour
<1>4. CASE m % 4 # 0 /\ n % 4 # 0
  BY <1>4 DEF PaletteEntry, WiredColour
<1> QED
  BY <1>1, <1>2, <1>3, <1>4

\* A store adds a cell and its place to both sides of the correspondence.
LEMMA StoreWires ==
  ASSUME NEW cell, NEW place, Store(cell, place), NEW c, NEW p,
         c \in cells <=> p \in stored, c = cell <=> p = place
  PROVE  c \in cells' <=> p \in stored'
BY DEF Store

\* The PPU's mirroring and the image stay; so does, but for its value, the register.
LEMMA BoardStays ==
  ASSUME Board, UNCHANGED <<image, ppu>>, latch' \in 0 .. 255
  PROVE  /\ Board'
         /\ FixedTables' = FixedTables
         /\ \A n : NameTable(ppu, n)' = NameTable(ppu, n)
         /\ FixedTables => \A n : WiredTable(n)' = WiredTable(n)
<1>1. Board'
  BY DEF Board
<1>2. FixedTables' = FixedTables /\ \A n : HeaderTable(n)' = HeaderTable(n)
  BY DEF FixedTables, HeaderTable
<1>3. ASSUME FixedTables, NEW n PROVE WiredTable(n)' = WiredTable(n)
  <2>1. WiredTable(n) = HeaderTable(n) /\ WiredTable(n)' = HeaderTable(n)'
    BY <1>2, <1>3 DEF WiredTable, FixedTables
  <2> QED
    BY <1>2, <2>1
<1> QED
  BY <1>1, <1>2, <1>3

\* A step that stores a byte keeps the correspondence if cell and place are of the same kind
\* and, within it, equal together.
LEMMA StoreKeeps ==
  ASSUME CartInv, NEW cell, NEW place, Store(cell, place), UNCHANGED <<vars, image, latch>>,
         FixedTables => \A n \in 0 .. 7 : <<"vram", NameTable(ppu, n)>> = cell <=> WiredTable(n) = place,
         \A n \in 0 .. 31 : <<"palette", PaletteEntry(n)>> = cell <=> WiredColour(n) = place,
         <<"pattern">> = cell <=> <<"pattern">> = place,
         <<"program">> = cell <=> <<"program">> = place
  PROVE  Board' /\ CellsAsWired' /\ ProgramWired'
<1>1. UNCHANGED <<image, ppu>> /\ latch' \in 0 .. 255 /\ Board
  BY DEF vars, CartInv, Board
<1>2. /\ Board' /\ FixedTables' = FixedTables
      /\ \A n : NameTable(ppu, n)' = NameTable(ppu, n)
      /\ FixedTables => \A n : WiredTable(n)' = WiredTable(n)
  BY <1>1, BoardStays, Zenon
<1>3. ASSUME FixedTables, NEW n \in 0 .. 7
      PROVE  TableAsWired(n)'
  <2>1. <<"vram", NameTable(ppu, n)>> \in cells <=> WiredTable(n) \in stored
    BY <1>3 DEF CartInv, CellsAsWired, TableAsWired
  <2>2. <<"vram", NameTable(ppu, n)>> \in cells' <=> WiredTable(n) \in stored'
    BY <1>3, <2>1 DEF Store
  <2> QED
    BY <1>2, <1>3, <2>2 DEF TableAsWired
<1>4. ASSUME NEW n \in 0 .. 31
      PROVE  (<<"palette", PaletteEntry(n)>> \in cells <=> WiredColour(n) \in stored)'
  <2>1. <<"palette", PaletteEntry(n)>> \in cells <=> WiredColour(n) \in stored
    BY DEF CartInv, CellsAsWired
  <2> QED
    BY <2>1, StoreWires, Zenon
<1>5. (<<"pattern">> \in cells <=> <<"pattern">> \in stored)'
  <2>1. <<"pattern">> \in cells <=> <<"pattern">> \in stored
    BY DEF CartInv, CellsAsWired
  <2> QED
    BY <2>1, StoreWires, Zenon
<1>6. ProgramWired'
  <2>1. <<"program">> \in cells <=> <<"program">> \in stored
    BY DEF CartInv, ProgramWired
  <2>2. <<"program">> \in cells' <=> <<"program">> \in stored'
    BY <2>1, StoreWires, Zenon
  <2> QED
    BY <2>2 DEF ProgramWired
<1>7. CellsAsWired'
  <2>1. ASSUME NEW a \in Addresses, Device(a) = "ram"
        PROVE  ReadCart(latch, a)' = <<"program">>
    BY <2>1 DEF ReadCart
  <2> QED
    BY <1>2, <1>3, <1>4, <1>5, <1>6, <2>1 DEF CellsAsWired, ProgramWired
<1> QED
  BY <1>2, <1>6, <1>7

\* A step that stores nothing keeps the correspondence, whatever banks it selects.
LEMMA CellsStay ==
  ASSUME CartInv, UNCHANGED <<image, ppu, cells, stored>>, latch' \in 0 .. 255
  PROVE  Board' /\ CellsAsWired' /\ ProgramWired'
<1>1. /\ Board' /\ FixedTables' = FixedTables
      /\ \A n : NameTable(ppu, n)' = NameTable(ppu, n)
      /\ FixedTables => \A n : WiredTable(n)' = WiredTable(n)
  BY BoardStays DEF CartInv
<1>2. ProgramWired'
  BY DEF CartInv, ProgramWired
<1>3. ASSUME NEW a \in Addresses, Device(a) = "ram"
      PROVE  ReadCart(latch, a)' = <<"program">>
  BY <1>3 DEF ReadCart
<1>4. /\ FixedTables => \A n \in 0 .. 7 : TableAsWired(n)
      /\ \A n \in 0 .. 31 : <<"palette", PaletteEntry(n)>> \in cells <=> WiredColour(n) \in stored
      /\ <<"pattern">> \in cells <=> <<"pattern">> \in stored
  BY DEF CartInv, CellsAsWired
<1>5. ASSUME FixedTables PROVE \A n \in 0 .. 7 : TableAsWired(n)'
  BY <1>1, <1>4, <1>5 DEF TableAsWired
<1> QED
  BY <1>1, <1>2, <1>3, <1>4, <1>5 DEF CellsAsWired, ProgramWired

\* Places of different kinds are different.
LEMMA KindsApart ==
  ASSUME Board
  PROVE  /\ \A n \in 0 .. 7 : /\ WiredTable(n) \notin {<<"program">>, <<"pattern">>}
                            /\ \A k \in 0 .. 31 : WiredTable(n) # WiredColour(k)
         /\ \A k \in 0 .. 31 : WiredColour(k) \notin {<<"program">>, <<"pattern">>}
<1>1. \A n \in 0 .. 7 : WiredTable(n)[1] = "table"
  BY TableKind
<1>2. \A k \in 0 .. 31 : WiredColour(k)[1] \in {"backdrop", "colour"}
  BY ColoursApart
<1>3. <<"program">>[1] = "program" /\ <<"pattern">>[1] = "pattern"
  OBVIOUS
<1> QED
  BY <1>1, <1>2, <1>3

\* Writes of the CPU.
LEMMA CpuWrites ==
  ASSUME CartInv, NEW a \in Addresses, NEW v \in Values, WriteCart(a, v)
  PROVE  Board' /\ CellsAsWired' /\ ProgramWired'
<1>1. CASE Device(a) = "ram"
  <2>1. Store(<<"program">>, <<"program">>) /\ UNCHANGED <<vars, image, latch>>
    BY <1>1 DEF WriteCart
  <2>2. Board
    BY DEF CartInv
  <2> QED
    BY <2>1, <2>2, KindsApart, StoreKeeps
<1>2. CASE Device(a) # "ram"
  <2>1. latch \in 0 .. 255 /\ v \in 0 .. 255
    BY BytesWritten DEF CartInv, Board
  <2>2. UNCHANGED <<image, ppu, cells, stored>> /\ latch' \in {latch, v}
    BY <1>2 DEF WriteCart, WriteReset, WriteBit, vars, cartVars
  <2> QED
    BY <2>1, <2>2, CellsStay
<1> QED
  BY <1>1, <1>2

\* Writes of the PPU to a name table, the palette, and pattern RAM.
LEMMA PpuWrites ==
  ASSUME CartInv,
         \/ \E n \in NameTables : WriteNameTable(n)
         \/ \E n \in Colours : WritePalette(n)
         \/ WritePattern
  PROVE  Board' /\ CellsAsWired' /\ ProgramWired'
<1>1. Board
  BY DEF CartInv
<1>2. ASSUME NEW m \in NameTables, WriteNameTable(m)
      PROVE  Board' /\ CellsAsWired' /\ ProgramWired'
  <2> DEFINE cell == <<"vram", NameTable(ppu, m)>>
             place == WiredTable(m)
  <2>1. m \in 0 .. 7
    BY BytesWritten
  <2>2. Store(cell, place) /\ UNCHANGED <<vars, image, latch>>
    BY <1>2 DEF WriteNameTable
  <2>3. FixedTables =>
          \A n \in 0 .. 7 : <<"vram", NameTable(ppu, n)>> = cell <=> WiredTable(n) = place
    BY <1>1, <2>1, TablesApart
  <2>4. /\ \A n \in 0 .. 31 : <<"palette", PaletteEntry(n)>> = cell <=> WiredColour(n) = place
        /\ <<"pattern">> = cell <=> <<"pattern">> = place
        /\ <<"program">> = cell <=> <<"program">> = place
    BY <1>1, <2>1, KindsApart
  <2> QED
    BY <2>2, <2>3, <2>4, StoreKeeps
<1>3. ASSUME NEW m \in Colours, WritePalette(m)
      PROVE  Board' /\ CellsAsWired' /\ ProgramWired'
  <2> DEFINE cell == <<"palette", PaletteEntry(m)>>
             place == WiredColour(m)
  <2>1. m \in 0 .. 31
    BY BytesWritten
  <2>2. Store(cell, place) /\ UNCHANGED <<vars, image, latch>>
    BY <1>3 DEF WritePalette
  <2>3. \A n \in 0 .. 31 : <<"palette", PaletteEntry(n)>> = cell <=> WiredColour(n) = place
    BY <2>1, ColoursApart
  <2>4. /\ \A n \in 0 .. 7 : <<"vram", NameTable(ppu, n)>> = cell <=> WiredTable(n) = place
        /\ <<"pattern">> = cell <=> <<"pattern">> = place
        /\ <<"program">> = cell <=> <<"program">> = place
    BY <1>1, <2>1, KindsApart
  <2> QED
    BY <2>2, <2>3, <2>4, StoreKeeps
<1>4. CASE WritePattern
  <2>1. Store(<<"pattern">>, <<"pattern">>) /\ UNCHANGED <<vars, image, latch>>
    BY <1>4 DEF WritePattern
  <2> QED
    BY <1>1, <2>1, KindsApart, StoreKeeps
<1> QED
  BY <1>2, <1>3, <1>4

\* A reset empties the cells of the PPU, and no others, on both sides.
LEMMA ResetWrites ==
  ASSUME CartInv, ResetNes
  PROVE  Board' /\ CellsAsWired' /\ ProgramWired'
<1>1. /\ UNCHANGED <<image, ppu>> /\ latch' \in 0 .. 255
      /\ cells' = {c \in cells : c[1] \notin {"vram", "palette"}}
      /\ stored' = {p \in stored : p[1] \notin {"table", "backdrop", "colour"}}
  BY DEF ResetNes, vars, CartInv, Board
<1>2. /\ Board' /\ FixedTables' = FixedTables
      /\ \A n : NameTable(ppu, n)' = NameTable(ppu, n)
      /\ FixedTables => \A n : WiredTable(n)' = WiredTable(n)
  BY <1>1, BoardStays DEF CartInv
<1>3. ASSUME FixedTables, NEW n \in 0 .. 7
      PROVE  TableAsWired(n)'
  <2>1. <<"vram", NameTable(ppu, n)>> \notin cells' /\ WiredTable(n) \notin stored'
    BY <1>1, TableKind DEF CartInv
  <2> QED
    BY <1>2, <1>3, <2>1 DEF TableAsWired
<1>4. ASSUME NEW n \in 0 .. 31
      PROVE  <<"palette", PaletteEntry(n)>> \notin cells' /\ WiredColour(n) \notin stored'
  BY <1>1, ColoursApart
<1>5. /\ <<"program">> \in cells' <=> <<"program">> \in cells
      /\ <<"program">> \in stored' <=> <<"program">> \in stored
      /\ <<"pattern">> \in cells' <=> <<"pattern">> \in cells
      /\ <<"pattern">> \in stored' <=> <<"pattern">> \in stored
  BY <1>1
<1>6. ProgramWired' /\ (<<"pattern">> \in cells' <=> <<"pattern">> \in stored')
  BY <1>5 DEF CartInv, CellsAsWired, ProgramWired
<1>7. ASSUME NEW a \in Addresses, Device(a) = "ram"
      PROVE  ReadCart(latch, a)' = <<"program">>
  BY <1>7 DEF ReadCart
<1> QED
  BY <1>2, <1>3, <1>4, <1>6, <1>7 DEF CellsAsWired, ProgramWired

\* A new cartridge.
LEMMA InitCart == CartInit => CartInv
<1> SUFFICES ASSUME CartInit PROVE CartInv
  OBVIOUS
<1>1. Board
  BY DEF CartInit, Board
<1>2. ProgramWired /\ CellsAsWired
  <2>1. cells = {} /\ stored = {}
    BY DEF CartInit
  <2> QED
    BY <2>1 DEF ProgramWired, CellsAsWired, TableAsWired
<1> QED
  BY <1>1, <1>2, InitInv DEF CartInv

\* Every step preserves it.
LEMMA StepCart == CartInv /\ [CartNext]_<<vars, cartVars>> => CartInv'
<1> SUFFICES ASSUME CartInv, [CartNext]_<<vars, cartVars>> PROVE CartInv'
  OBVIOUS
<1>1. Inv'
  BY StepInv DEF CartInv
<1>2. ASSUME NEW a \in Addresses, NEW v \in Values, WriteCart(a, v)
      PROVE  Board' /\ CellsAsWired' /\ ProgramWired'
  BY <1>2, CpuWrites
<1>3. ASSUME ResetNes
      PROVE  Board' /\ CellsAsWired' /\ ProgramWired'
  BY <1>3, ResetWrites
<1>4. ASSUME UNCHANGED <<vars, cartVars>>
      PROVE  Board' /\ CellsAsWired' /\ ProgramWired'
  <2>1. UNCHANGED <<image, ppu, cells, stored>> /\ latch' \in 0 .. 255
    BY <1>4 DEF vars, cartVars, CartInv, Board
  <2> QED
    BY <2>1, CellsStay
<1> QED
  BY <1>1, <1>2, <1>3, <1>4, PpuWrites DEF CartNext, CartInv

LEMMA CartAlways == CartSpec => []CartInv
BY InitCart, StepCart, PTL DEF CartSpec

\* A byte written through one address is read through exactly the addresses that the board wires
\* to it: palette, program RAM and pattern RAM of every image, and the name tables of every one
\* whose board does not switch them, in all of the header's modes.
THEOREM MemoriesWired == CartSpec => []CellsAsWired
<1>1. CartInv => CellsAsWired
  BY DEF CartInv
<1> QED
  BY <1>1, CartAlways, PTL

-----------------------------------------------------------------------------
(* The sections of the file. *)

\* The bank that the CPU reads in either half.
LEMMA ReadsBank ==
  ASSUME NEW r, NEW half \in {0, 1}
  PROVE  ReadCart(r, 32768 + 16384 * half)[2] = PrgBankAt(image, r, half)
<1> DEFINE a == 32768 + 16384 * half
<1>1. a \in Nat /\ a >= 32768 /\ (a - 32768) \div 16384 = half
  OBVIOUS
<1> HIDE DEF a
<1>2. Device(a) = "rom"
  BY <1>1 DEF Device
<1>3. ReadCart(r, a) = <<"rom", PrgBankAt(image, r, (a - 32768) \div 16384)>>
  BY <1>2 DEF ReadCart
<1>4. ReadCart(r, a)[2] = PrgBankAt(image, r, half)
  BY <1>1, <1>3
<1> QED
  BY <1>4 DEF a

\* The file ends, but for what is behind its image, with the patterns, and before them the program.
LEMMA Sections ==
  ASSUME Board
  PROVE  /\ PrgStart(image) \in Nat
         /\ image.length - image.spare = PrgStart(image) + 16384 * image.prg + 8192 * image.chr
         /\ ChrStart(image) = PrgStart(image) + 16384 * image.prg
<1>1. image.flags6 \in 0 .. 255 /\ image.prg \in 1 .. 255 /\ image.chr \in 0 .. 255
      /\ image.spare \in Int
      /\ image.length = 16 + (IF image.flags6 % 8 >= 4 THEN 512 ELSE 0)
                          + 16384 * image.prg + 8192 * image.chr + image.spare
  BY ImageHas DEF Board
<1>2. PrgStart(image) = 16 + (IF image.flags6 % 8 >= 4 THEN 512 ELSE 0)
  BY <1>1 DEF PrgStart, Bit
<1>5. PrgStart(image) \in Nat
  BY <1>2
<1>6. image.length - image.spare = PrgStart(image) + 16384 * image.prg + 8192 * image.chr
  <2> DEFINE start == PrgStart(image)
             prg == image.prg
             chr == image.chr
             spare == image.spare
             length == image.length
  <2>1. start \in Nat /\ prg \in Nat /\ chr \in Nat /\ spare \in Int
    BY <1>1, <1>5
  <2>2. length = start + 16384 * prg + 8192 * chr + spare
    BY <1>1, <1>2
  <2> HIDE DEF start, prg, chr, spare, length
  <2>3. length - spare = start + 16384 * prg + 8192 * chr
    BY <2>1, <2>2
  <2> QED
    BY <2>3 DEF start, prg, chr, spare, length
<1>7. ChrStart(image) = PrgStart(image) + 16384 * image.prg
  BY DEF ChrStart, PrgSize
<1> QED
  BY <1>5, <1>6, <1>7

\* What the boards come in.
LEMMA BoardHas ==
  ASSUME Board
  PROVE  /\ Kind(image) \in {"nrom", "mmc1", "uxrom", "cnrom", "axrom"}
         /\ image.prg \in 1 .. 255 /\ image.chr \in 0 .. 255
         /\ Kind(image) \in {"nrom", "cnrom"} => image.prg \in {1, 2}
         /\ Kind(image) = "axrom" => image.prg % 2 = 0 /\ image.prg <= 16
         /\ Kind(image) = "mmc1" => image.prg >= 2
<1>1. image \in Images /\ Accepted(image)
  BY DEF Board
<1>2. image \in {j \in Images : Accepted(j)}
  BY <1>1
<1>3. /\ Kind(image) \in {"nrom", "cnrom"} => image.prg \in {1, 2}
      /\ Kind(image) = "axrom" => image.prg % 2 = 0 /\ image.prg <= 16
      /\ Kind(image) = "mmc1" => image.prg >= 2
  BY <1>2, BoardsAssumption DEF BoardsAssumption
<1> QED
  BY <1>1, <1>3, FiveKinds, ImageHas

\* The banks of AxROM come in pairs, the register choosing one of them.
LEMMA AxromPairs ==
  ASSUME NEW n \in 1 .. 16, n % 2 = 0, NEW r \in Nat
  PROVE  /\ AtLeast1(n \div 2) = n \div 2
         /\ (r % 8) % (n \div 2) \in 0 .. (n \div 2) - 1
         /\ r < n \div 2 => (r % 8) % (n \div 2) = r
         /\ 2 * (n \div 2) = n
<1> DEFINE h == n \div 2
<1>1. h \in 1 .. 8 /\ 2 * h = n
  OBVIOUS
<1>2. AtLeast1(h) = h
  BY <1>1 DEF AtLeast1
<1>3. r % 8 \in 0 .. 7 /\ (r < 8 => r % 8 = r)
  OBVIOUS
<1> HIDE DEF h
<1>4. (r % 8) % h \in 0 .. h - 1
  BY <1>1, <1>3
<1>5. ASSUME r < h PROVE (r % 8) % h = r
  <2>1. r % 8 = r
    BY <1>1, <1>3, <1>5
  <2>2. r % h = r
    BY <1>1, <1>5
  <2> QED
    BY <2>1, <2>2
<1> QED
  BY <1>1, <1>2, <1>4, <1>5 DEF h

\* With any byte in its register, and any registers of the MMC1, a board reads a bank that it has;
\* UxROM may be told one that it has not, in the lower half.
LEMMA BankInside ==
  ASSUME Board, TypeOK, NEW half \in {0, 1}
  PROVE  \/ PrgBankAt(image, latch, half) \in 0 .. image.prg - 1
         \/ Kind(image) = "uxrom" /\ half = 0 /\ latch >= image.prg
<1>1. latch \in 0 .. 255
  BY DEF Board
<1>2. CASE Kind(image) \in {"nrom", "cnrom"}
  <2>1. image.prg \in {1, 2}
    BY <1>2, BoardHas
  <2>2. half % image.prg \in 0 .. image.prg - 1
    BY <2>1
  <2>3. PrgBankAt(image, latch, half) = half % image.prg
    BY <1>2 DEF PrgBankAt, NromPrg, CnromPrg
  <2> QED
    BY <2>2, <2>3
<1>3. CASE Kind(image) = "uxrom"
  <2>1. PrgBankAt(image, latch, half) = IF half = 1 THEN image.prg - 1 ELSE latch
    BY <1>3 DEF PrgBankAt, UxromPrg
  <2>2. image.prg \in 1 .. 255
    BY BoardHas
  <2>3. CASE half = 1
    BY <2>1, <2>2, <2>3
  <2>4. CASE half = 0
    BY <1>1, <1>3, <2>1, <2>2, <2>4
  <2> QED
    BY <2>3, <2>4
<1>4. CASE Kind(image) = "mmc1"
  <2>1. image.prg \in Nat \ {0, 1}
    BY <1>4, BoardHas
  <2>2. PrgRead(reg, image.prg, half = 1) \in 0 .. image.prg - 1
    <3>1. (half = 1) \in BOOLEAN
      OBVIOUS
    <3> QED
      BY <2>1, <3>1, PrgInside, Zenon
  <2>3. PrgBankAt(image, latch, half) = PrgRead(reg, image.prg, half = 1)
    BY <1>4 DEF PrgBankAt
  <2> QED
    BY <2>2, <2>3
<1>5. CASE Kind(image) = "axrom"
  <2>1. image.prg \in 1 .. 16 /\ image.prg % 2 = 0
    BY <1>5, BoardHas
  <2>2. /\ AtLeast1(image.prg \div 2) = image.prg \div 2
        /\ (latch % 8) % (image.prg \div 2) \in 0 .. (image.prg \div 2) - 1
        /\ 2 * (image.prg \div 2) = image.prg
    <3>1. latch \in Nat
      BY <1>1
    <3> QED
      BY <2>1, <3>1, AxromPairs, Zenon
  <2>3. PrgBankAt(image, latch, half) = 2 * ((latch % 8) % (image.prg \div 2)) + half
    BY <1>5, <2>2 DEF PrgBankAt, AxromPrg
  <2> DEFINE pairs == image.prg \div 2
             pair == (latch % 8) % pairs
  <2>4. pair \in 0 .. pairs - 1 /\ 2 * pairs = image.prg /\ pairs \in Nat
    BY <2>1, <2>2
  <2>5. PrgBankAt(image, latch, half) = 2 * pair + half
    BY <2>3
  <2> HIDE DEF pairs, pair
  <2> QED
    BY <2>1, <2>4, <2>5
<1> QED
  BY <1>2, <1>3, <1>4, <1>5, BoardHas

\* Each bank of a board with a register of its own is the bank of some read.
LEMMA BankReached ==
  ASSUME Board, Kind(image) # "mmc1", NEW b \in 0 .. image.prg - 1
  PROVE  \E r \in 0 .. 255, half \in {0, 1} : PrgBankAt(image, r, half) = b
<1>1. CASE Kind(image) \in {"nrom", "cnrom"}
  <2>1. b \in {0, 1} /\ PrgBankAt(image, 0, b) = b
    BY <1>1, BoardHas DEF PrgBankAt, NromPrg, CnromPrg
  <2> QED
    BY <2>1
<1>2. CASE Kind(image) = "uxrom"
  <2>1. PrgBankAt(image, b, 0) = b
    BY <1>2 DEF PrgBankAt, UxromPrg
  <2>2. b \in 0 .. 255
    BY BoardHas
  <2> QED
    BY <2>1, <2>2
<1>3. CASE Kind(image) = "axrom"
  <2>1. image.prg \in 1 .. 16 /\ image.prg % 2 = 0
    BY <1>3, BoardHas
  <2> DEFINE r == b \div 2
             half == b % 2
  <2>2. r \in 0 .. 255 /\ r < image.prg \div 2
    BY <2>1
  <2>3. 2 * r + half = b /\ half \in {0, 1}
    BY <2>1
  <2> HIDE DEF r, half
  <2>4. (r % 8) % AtLeast1(image.prg \div 2) = r
    <3>1. r \in Nat
      BY <2>2
    <3> QED
      BY <2>1, <2>2, <3>1, AxromPairs, Zenon
  <2>5. PrgBankAt(image, r, half) = b
    BY <1>3, <2>3, <2>4 DEF PrgBankAt, AxromPrg
  <2> QED
    BY <2>2, <2>3, <2>5
<1> QED
  BY <1>1, <1>2, <1>3, BoardHas

\* The pattern banks of CNROM are the register, as far as there are banks.
LEMMA PatternReached ==
  ASSUME Board, Kind(image) = "cnrom", image.chr > 0
  PROVE  /\ \A r \in 0 .. 255 : ChrBankAt(image, r) \in 0 .. image.chr - 1
         /\ \A b \in 0 .. image.chr - 1 : b \in 0 .. 255 /\ ChrBankAt(image, b) = b
<1>1. image.chr \in 1 .. 255 /\ AtLeast1(image.chr) = image.chr
  BY BoardHas DEF AtLeast1
<1>2. \A r : ChrBankAt(image, r) = r % image.chr
  BY <1>1 DEF ChrBankAt, CnromChr
<1> DEFINE c == image.chr
<1>3. c \in 1 .. 255
  BY <1>1
<1> HIDE DEF c
<1>4. \A r \in 0 .. 255 : r % c \in 0 .. c - 1
  BY <1>3
<1>5. \A b \in 0 .. c - 1 : b \in 0 .. 255 /\ b % c = b
  BY <1>3
<1> QED
  BY <1>2, <1>4, <1>5 DEF c

\* Where a read comes from, and which banks there are, counted from the start of the program.
LEMMA PrgPlaces ==
  ASSUME Board, NEW r, NEW half \in {0, 1}, NEW n \in 1 .. image.prg
  PROVE  PrgBankAt(image, r, half) = image.prg - n => PrgFrom(r, half) = PrgBankOf(n)
<1> DEFINE start == PrgStart(image)
           prg == image.prg
           chr == 8192 * image.chr
           end == image.length - image.spare
<1>1. start \in Nat /\ prg \in Nat /\ chr \in Nat /\ end = start + 16384 * prg + chr /\ n \in 1 .. prg
  BY Sections, BoardHas
<1>2. ReadCart(r, 32768 + 16384 * half)[2] = PrgBankAt(image, r, half)
  BY ReadsBank
<1>3. ASSUME PrgBankAt(image, r, half) = image.prg - n
      PROVE  PrgSize * ReadCart(r, 32768 + 16384 * half)[2] = 16384 * (prg - n)
  BY <1>2, <1>3 DEF PrgSize
<1>4. end - chr = image.length - image.spare - ChrSize * image.chr
  BY DEF ChrSize
<1> HIDE DEF start, prg, chr, end
<1>5. start + 16384 * (prg - n) = end - chr - 16384 * n
  BY <1>1
<1> QED
  BY <1>3, <1>4, <1>5 DEF start, PrgSize, PrgFrom, PrgBankOf

\* The same of the patterns.
LEMMA ChrPlaces ==
  ASSUME Board, NEW r, NEW n \in 1 .. image.chr
  PROVE  ChrBankAt(image, r) = image.chr - n => ChrFrom(r) = ChrBankOf(n)
<1> DEFINE start == ChrStart(image)
           chr == image.chr
           end == image.length - image.spare
           bank == ChrBankAt(image, r)
<1>1. start \in Nat /\ chr \in Nat /\ end = start + 8192 * chr /\ n \in 1 .. chr
  <2>1. image.prg \in Nat /\ image.chr \in Nat
    BY BoardHas
  <2>2. PrgStart(image) + 16384 * image.prg \in Nat
    BY <2>1, Sections
  <2> QED
    BY <2>1, <2>2, Sections
<1> SUFFICES ASSUME bank = chr - n
             PROVE  start + ChrSize * bank = end - ChrSize * n
  BY DEF ChrFrom, ChrBankOf
<1> HIDE DEF start, chr, end, bank
<1> QED
  BY <1>1 DEF ChrSize

\* However header, trainer, mapper and register combine, reads come from the section of the file
\* that holds the program or the patterns, fixed halves have the last bank, and every bank is
\* within reach: for every image of a board that exists, and whatever was written.
THEOREM FileAsWired == CartSpec => []ImageAsWired
<1>1. CartInv => ImageAsWired
  <2> SUFFICES ASSUME CartInv PROVE ImageAsWired
    OBVIOUS
  <2>1. Board /\ TypeOK /\ image.prg \in 1 .. 255 /\ image.chr \in 0 .. 255
    BY BoardHas DEF CartInv, Inv
  <2>2. ASSUME Kind(image) # "mmc1"
        PROVE  PrgBanks \subseteq {PrgFrom(r, half) : r \in 0 .. 255, half \in {0, 1}}
    <3>1. ASSUME NEW n \in 1 .. image.prg
          PROVE  \E r \in 0 .. 255, half \in {0, 1} : PrgBankOf(n) = PrgFrom(r, half)
      <4>1. image.prg - n \in 0 .. image.prg - 1
        BY <2>1
      <4>2. PICK r \in 0 .. 255, half \in {0, 1} : PrgBankAt(image, r, half) = image.prg - n
        BY <2>1, <2>2, <4>1, BankReached
      <4>3. PrgFrom(r, half) = PrgBankOf(n)
        BY <2>1, <4>2, PrgPlaces
      <4> QED
        BY <4>3
    <3> QED
      BY <3>1 DEF PrgBanks
  <2>3. ASSUME NEW half \in {0, 1}
        PROVE  \/ PrgFrom(latch, half) \in PrgBanks
               \/ Kind(image) = "uxrom" /\ half = 0 /\ latch >= image.prg
    <3>1. CASE PrgBankAt(image, latch, half) \in 0 .. image.prg - 1
      <4> DEFINE n == image.prg - PrgBankAt(image, latch, half)
      <4>1. n \in 1 .. image.prg /\ PrgBankAt(image, latch, half) = image.prg - n
        BY <2>1, <3>1
      <4>2. PrgFrom(latch, half) = PrgBankOf(n)
        BY <2>1, <4>1, PrgPlaces
      <4> QED
        BY <4>1, <4>2 DEF PrgBanks
    <3> QED
      BY <2>1, <3>1, BankInside
  <2>4. ASSUME Kind(image) \in {"nrom", "uxrom", "cnrom"}
        PROVE  PrgFrom(latch, 1) = PrgBankOf(1)
    <3>1. PrgBankAt(image, latch, 1) = image.prg - 1
      BY <2>1, <2>4, BoardHas DEF PrgBankAt, NromPrg, UxromPrg, CnromPrg
    <3>2. 1 \in 1 .. image.prg
      BY <2>1
    <3> QED
      BY <2>1, <3>1, <3>2, PrgPlaces
  <2>5. ASSUME Kind(image) = "cnrom", image.chr > 0
        PROVE  {ChrFrom(r) : r \in 0 .. 255} = ChrBanks
    <3>1. ASSUME NEW r \in 0 .. 255
          PROVE  \E n \in 1 .. image.chr : ChrFrom(r) = ChrBankOf(n)
      <4> DEFINE n == image.chr - ChrBankAt(image, r)
      <4>1. ChrBankAt(image, r) \in 0 .. image.chr - 1
        BY <2>1, <2>5, PatternReached
      <4>2. n \in 1 .. image.chr /\ ChrBankAt(image, r) = image.chr - n
        BY <2>1, <4>1
      <4> QED
        BY <2>1, <4>2, ChrPlaces
    <3>2. ASSUME NEW n \in 1 .. image.chr
          PROVE  \E r \in 0 .. 255 : ChrFrom(r) = ChrBankOf(n)
      <4>1. image.chr - n \in 0 .. image.chr - 1
        BY <2>1
      <4>2. /\ image.chr - n \in 0 .. 255
            /\ ChrBankAt(image, image.chr - n) = image.chr - n
        BY <2>1, <2>5, <4>1, PatternReached
      <4> QED
        BY <2>1, <4>2, ChrPlaces
    <3> QED
      BY <3>1, <3>2 DEF ChrBanks
  <2> QED
    BY <2>2, <2>3, <2>4, <2>5 DEF ImageAsWired
<1> QED
  BY <1>1, CartAlways, PTL
=============================================================================

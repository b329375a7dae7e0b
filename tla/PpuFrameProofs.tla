--------------------------- MODULE PpuFrameProofs -----------------------------
(***************************************************************************)
(* For frames of every size: what a program sees of a VBlank, and the      *)
(* length of frames from one VBlank to the next.                           *)
(***************************************************************************)
EXTENDS PpuFrame, Integers, TLAPS

Beams == [pixel : 0 .. Dots - 1, scanline : 0 .. Lines - 1, odd : BOOLEAN]

Statuses ==
  [vblank : BOOLEAN, start : BOOLEAN, nmi : BOOLEAN, frame : BOOLEAN, hit : BOOLEAN,
   overflow : BOOLEAN]

TypeOK ==
  /\ tv \in {"ntsc", "pal"} /\ beam \in Beams /\ status \in Statuses
  /\ reg \in [nmi : BOOLEAN, render : BOOLEAN] /\ gap \in 0 .. CycleDots
  /\ age \in Nat /\ last \in Nat /\ seen \in Nat /\ polled \in Nat

\* The flag stands for a read that has not been made.
ReadOnce == seen + (IF status.vblank THEN 1 ELSE 0) <= 1

\* The beam has not come to VBlank in this frame.
Before(b) == b.scanline < VBlankLine \/ (b.scanline = VBlankLine /\ b.pixel = 0)

\* Lines since VBlank started.
Rows(b) == IF Before(b) THEN (Lines + b.scanline) - VBlankLine ELSE b.scanline - VBlankLine

\* The age is what the position of the beam says, less one if the frame that ended since VBlank
\* was the short one; then this frame is even.  When the last full frame was short, the
\* frames are even until the beam comes around, and odd behind that.
Aged(short) ==
  /\ age = (Rows(beam) * Dots + beam.pixel) - (1 + short)
  /\ short = 1 => Before(beam) /\ tv = "ntsc" /\ ~beam.odd /\ last # FullFrame - 1
  /\ last = FullFrame - 1 => (Before(beam) <=> beam.odd)

AgeInv == \E short \in {0, 1} : Aged(short)

IInv == TypeOK /\ OncePerVBlank /\ ReadOnce /\ AgeInv

-----------------------------------------------------------------------------
LEMMA ConstantFacts ==
  ASSUME tv \in {"ntsc", "pal"}
  PROVE  /\ NtscLines \in Nat /\ Dots \in Nat /\ Visible \in Nat /\ VBlankLine \in Nat
         /\ Lines \in Nat /\ PreRender = Lines - 1
         /\ 0 < Visible /\ Visible < VBlankLine /\ 4 < Dots /\ VBlankLine + 2 < Lines
         /\ tv = "ntsc" => Lines = NtscLines
BY PpuAssumption DEF Lines, PreRender

\* One line more.
LEMMA OneLine ==
  /\ \A k \in Int : k * Dots \in Int /\ (k + 1) * Dots = k * Dots + Dots
  /\ 0 * Dots = 0
  /\ \A k \in Int : k > 0 => k * Dots >= Dots
BY PpuAssumption, Z3

\* The beam moves on in its line, to the next line, or to the next frame, that last from one dot
\* earlier if it is odd.
LEMMA MovedCases ==
  ASSUME tv \in {"ntsc", "pal"}, NEW b \in Beams
  PROVE  /\ Moved(b) \in Beams
         /\ \/ /\ b.pixel < Dots - 1
               /\ Moved(b).pixel = b.pixel + 1 /\ Moved(b).scanline = b.scanline
               /\ Moved(b).odd = b.odd
            \/ /\ b.pixel = Dots - 1 /\ b.scanline < PreRender
               /\ Moved(b).pixel = 0 /\ Moved(b).scanline = b.scanline + 1 /\ Moved(b).odd = b.odd
            \/ /\ b.scanline = PreRender
               /\ b.pixel = Dots - 1 \/ (b.pixel = Dots - 2 /\ tv = "ntsc" /\ b.odd)
               /\ Moved(b).pixel = 0 /\ Moved(b).scanline = 0 /\ Moved(b).odd = ~b.odd
<1> DEFINE newLine == Skips(b) \/ b.pixel = Dots - 1
           newFrame == newLine /\ b.scanline = PreRender
<1>1. /\ b.pixel \in 0 .. Dots - 1 /\ b.scanline \in 0 .. Lines - 1 /\ b.odd \in BOOLEAN
  BY DEF Beams
<1>2. /\ Moved(b).pixel = IF newLine THEN 0 ELSE b.pixel + 1
      /\ Moved(b).scanline = IF newFrame THEN 0 ELSE IF newLine THEN b.scanline + 1 ELSE b.scanline
      /\ Moved(b).odd = (b.odd # newFrame)
      /\ Moved(b) = [pixel |-> Moved(b).pixel, scanline |-> Moved(b).scanline, odd |-> Moved(b).odd]
  BY DEF Moved
<1>3. Skips(b) => b.scanline = PreRender /\ b.pixel = Dots - 2 /\ tv = "ntsc" /\ b.odd
  BY ConstantFacts DEF Skips
<1>4. newLine \in BOOLEAN /\ newFrame \in BOOLEAN /\ newLine = (Skips(b) \/ b.pixel = Dots - 1)
  BY DEF Skips
<1>5. CASE ~newLine
  <2>1. Moved(b).odd = b.odd
    BY <1>1, <1>2, <1>5
  <2>2. Moved(b).pixel = b.pixel + 1 /\ Moved(b).scanline = b.scanline /\ b.pixel < Dots - 1
    BY <1>1, <1>2, <1>5, ConstantFacts
  <2> QED
    BY <1>1, <1>2, <2>1, <2>2, ConstantFacts DEF Beams
<1>6. CASE newLine /\ b.scanline # PreRender
  <2>1. Moved(b).odd = b.odd
    BY <1>1, <1>2, <1>6
  <2>2. Moved(b).pixel = 0 /\ Moved(b).scanline = b.scanline + 1 /\ b.pixel = Dots - 1
        /\ b.scanline < PreRender
    BY <1>1, <1>2, <1>3, <1>6, ConstantFacts
  <2>3. Moved(b) \in Beams
    BY <1>1, <1>2, <2>1, <2>2, ConstantFacts DEF Beams
  <2> QED
    BY <2>1, <2>2, <2>3
<1>7. CASE newFrame
  <2>1. Moved(b).odd = ~b.odd
    BY <1>1, <1>2, <1>7
  <2>2. Moved(b).pixel = 0 /\ Moved(b).scanline = 0 /\ b.scanline = PreRender
        /\ (b.pixel = Dots - 1 \/ (b.pixel = Dots - 2 /\ tv = "ntsc" /\ b.odd))
    BY <1>1, <1>2, <1>3, <1>7, ConstantFacts
  <2>3. Moved(b).odd \in BOOLEAN
    BY <1>2
  <2>4. Moved(b).pixel \in 0 .. Dots - 1 /\ Moved(b).scanline \in 0 .. Lines - 1
    BY <2>2, ConstantFacts
  <2>5. Moved(b) \in Beams
    BY <1>2, <2>3, <2>4, Zenon DEF Beams
  <2> QED
    BY <2>1, <2>2, <2>5, Zenon
<1> QED
  BY <1>4, <1>5, <1>6, <1>7

-----------------------------------------------------------------------------
LEMMA FreshState ==
  ASSUME tv \in {"ntsc", "pal"}
  PROVE  /\ FreshBeam \in Beams /\ FreshStatus \in Statuses
         /\ FreshReg \in [nmi : BOOLEAN, render : BOOLEAN] /\ FreshAge \in Nat
         /\ FreshAge > 0 /\ FullFrame \in Nat /\ FullFrame - 1 > 0
<1>1. FreshBeam \in Beams
  BY ConstantFacts DEF FreshBeam, Beams
<1>2. FreshAge \in Nat /\ FreshAge > 0
  <2>1. Lines - VBlankLine \in Int /\ Lines - VBlankLine > 0
    BY ConstantFacts
  <2>2. (Lines - VBlankLine) * Dots \in Int /\ (Lines - VBlankLine) * Dots >= Dots
    BY <2>1, OneLine
  <2> QED
    BY <2>2, ConstantFacts DEF FreshAge
<1>3. FullFrame \in Nat /\ FullFrame - 1 > 0
  <2>1. Lines \in Int /\ Lines > 0
    BY ConstantFacts
  <2>2. Lines * Dots \in Int /\ Lines * Dots >= Dots
    BY <2>1, OneLine
  <2> QED
    BY <2>2, ConstantFacts DEF FullFrame
<1> QED
  BY <1>1, <1>2, <1>3 DEF FreshStatus, FreshReg, Statuses

\* Power on and a reset put the beam at the top of a frame.
Fresh ==
  /\ tv \in {"ntsc", "pal"} /\ beam = FreshBeam /\ status = FreshStatus /\ reg = FreshReg
  /\ gap = 0 /\ last = 0 /\ seen = 0 /\ polled = 0 /\ age = FreshAge

LEMMA FreshInv == Fresh => IInv
<1> SUFFICES ASSUME Fresh PROVE IInv
  OBVIOUS
<1> USE DEF Fresh
<1>1. TypeOK
  BY FreshState DEF TypeOK, CycleDots
<1>2. OncePerVBlank /\ ReadOnce
  BY DEF OncePerVBlank, ReadOnce, FreshStatus
<1>3. Aged(0)
  <2>1. Before(beam) /\ Rows(beam) = Lines - VBlankLine /\ beam.pixel = 1
    BY ConstantFacts DEF Before, Rows, FreshBeam
  <2>2. Rows(beam) * Dots \in Int
    BY <2>1, OneLine, ConstantFacts
  <2>3. age = Rows(beam) * Dots
    BY <2>1 DEF FreshAge
  <2> QED
    BY <2>1, <2>2, <2>3, FreshState DEF Aged
<1> QED
  BY <1>1, <1>2, <1>3 DEF IInv, AgeInv

LEMMA InitInv == Init => IInv
BY FreshInv DEF Init, Fresh

LEMMA ResetInv == IInv /\ Reset => IInv'
<1>1. IInv /\ Reset => Fresh'
  BY DEF IInv, TypeOK, Reset, Fresh, FreshAge, Lines
<1> QED
  BY <1>1, FreshInv, PTL

-----------------------------------------------------------------------------
(* The dot. *)

LEMMA DotType == IInv /\ Dot => TypeOK'
<1> SUFFICES ASSUME IInv, Dot PROVE TypeOK'
  OBVIOUS
<1>1. /\ tv \in {"ntsc", "pal"} /\ beam \in Beams /\ status \in Statuses /\ tv' = tv
      /\ beam' = Moved(beam) /\ reg' = reg /\ gap \in Nat /\ gap <= CycleDots
      /\ age \in Nat /\ last \in Nat /\ seen \in Nat /\ polled \in Nat /\ CycleDots = 3
  BY DEF IInv, TypeOK, Dot, CycleDots
<1>2. beam' \in Beams /\ Beams' = Beams
  BY <1>1, MovedCases DEF Beams, Lines
<1>3. status' \in Statuses
  <2>1. StatusAt(beam') \in Statuses
    BY <1>1 DEF IInv, TypeOK, Statuses, StatusAt, Entered, Exited
  <2>2. \A s \in Statuses : \A hit, overflow \in BOOLEAN :
          [s EXCEPT !.hit = @ \/ hit, !.overflow = @ \/ overflow] \in Statuses
    BY DEF Statuses
  <2>3. PICK hit, overflow \in BOOLEAN :
          status' = [StatusAt(beam') EXCEPT !.hit = @ \/ hit, !.overflow = @ \/ overflow]
    <3>1. (beam'.scanline < Visible /\ beam'.pixel > 0 /\ reg.render) \in BOOLEAN
      OBVIOUS
    <3> QED
      BY <1>1, <3>1, Zenon DEF Dot
  <2> QED
    BY <2>1, <2>2, <2>3, Zenon
<1>4. gap' \in 0 .. CycleDots
  BY <1>1 DEF Dot
<1>5. age' \in Nat /\ last' \in Nat /\ seen' \in Nat /\ polled' \in Nat
  BY <1>1 DEF Dot
<1> QED
  BY <1>1, <1>2, <1>3, <1>4, <1>5 DEF IInv, TypeOK

\* A dot leaves VBlank only by the one that clears the flag and the latch.
LEMMA StaysInVBlank ==
  ASSUME tv \in {"ntsc", "pal"}, beam \in Beams, beam' = Moved(beam), tv' = tv, InVBlank
  PROVE  InVBlank' \/ EndsVBlank(beam')
<1>1. /\ beam.pixel \in Nat /\ beam.scanline \in Nat
      /\ beam.pixel <= Dots - 1 /\ beam.scanline <= Lines - 1
  BY ConstantFacts DEF Beams
<1>2. PreRender' = PreRender
  BY DEF PreRender, Lines
<1> QED
  BY <1>1, <1>2, MovedCases, ConstantFacts DEF InVBlank, EndsVBlank

LEMMA DotOnce == IInv /\ Dot => OncePerVBlank' /\ ReadOnce'
<1> SUFFICES ASSUME IInv, Dot PROVE OncePerVBlank' /\ ReadOnce'
  OBVIOUS
<1>1. /\ tv \in {"ntsc", "pal"} /\ beam \in Beams /\ status \in Statuses /\ tv' = tv
      /\ beam' = Moved(beam) /\ seen \in Nat /\ polled \in Nat
      /\ status.vblank \in BOOLEAN /\ status.nmi \in BOOLEAN
  BY DEF IInv, TypeOK, Dot, Statuses
<1>2. /\ status'.vblank = StatusAt(beam').vblank
      /\ status'.nmi = StatusAt(beam').nmi
  BY <1>1 DEF Dot, StatusAt, Entered, Exited, Statuses
<1>3. PreRender' = PreRender /\ PreRender \in Int /\ VBlankLine < PreRender - 1
  BY <1>1, ConstantFacts DEF PreRender, Lines
<1>4. CASE StartsVBlank(beam')
  <2>1. seen' = 0 /\ polled' = 0
    BY <1>4, <1>1 DEF Dot
  <2>2. InVBlank'
    BY <1>4, <1>3 DEF StartsVBlank, InVBlank
  <2>3. status'.vblank = TRUE /\ status'.nmi \in BOOLEAN
    BY <1>1, <1>2, <1>4 DEF StatusAt, Entered, Statuses, Dot
  <2> QED
    BY <2>1, <2>2, <2>3 DEF OncePerVBlank, ReadOnce
<1>5. CASE ~StartsVBlank(beam') /\ EndsVBlank(beam')
  <2>1. seen' = seen /\ polled' = polled
    BY <1>5, <1>1 DEF Dot
  <2>2. status'.vblank = FALSE /\ status'.nmi = FALSE
    BY <1>1, <1>2, <1>5 DEF StatusAt, Exited, Statuses
  <2> QED
    BY <1>1, <2>1, <2>2 DEF OncePerVBlank, ReadOnce, IInv
<1>6. CASE ~StartsVBlank(beam') /\ ~EndsVBlank(beam')
  <2>1. seen' = seen /\ polled' = polled
    BY <1>6, <1>1 DEF Dot
  <2>2. status'.vblank = status.vblank /\ status'.nmi = status.nmi
    BY <1>1, <1>2, <1>6 DEF StatusAt, Statuses
  <2>3. status'.vblank \/ status'.nmi => InVBlank'
    BY <1>1, <1>6, <2>2, StaysInVBlank DEF IInv, OncePerVBlank
  <2>4. /\ polled' + (IF status'.nmi THEN 1 ELSE 0) <= 1 /\ seen' <= 1
        /\ seen' + (IF status'.vblank THEN 1 ELSE 0) <= 1
    BY <2>1, <2>2 DEF IInv, OncePerVBlank, ReadOnce
  <2> QED
    BY <2>3, <2>4 DEF OncePerVBlank, ReadOnce
<1> QED
  BY <1>4, <1>5, <1>6

\* What the age comes to when the beam is where VBlank starts.
LEMMA DotAtStart ==
  ASSUME IInv, Dot, StartsVBlank(beam')
  PROVE  /\ last' = FullFrame \/ (last' = FullFrame - 1 /\ tv = "ntsc" /\ last # FullFrame - 1)
         /\ age' = 0 /\ AgeInv'
<1>1. /\ tv \in {"ntsc", "pal"} /\ beam \in Beams /\ tv' = tv /\ beam' = Moved(beam)
      /\ age \in Nat /\ age' = 0 /\ last' = age + 1
      /\ beam'.scanline = VBlankLine /\ beam'.pixel = 1
  BY DEF IInv, TypeOK, Dot, StartsVBlank
<1>2. /\ beam.pixel \in Nat /\ beam.scanline \in Nat /\ beam.odd \in BOOLEAN
      /\ beam.pixel <= Dots - 1 /\ beam.scanline <= Lines - 1
  BY <1>1, ConstantFacts DEF Beams
<1>3. beam.scanline = VBlankLine /\ beam.pixel = 0 /\ beam'.odd = beam.odd
  BY <1>1, <1>2, MovedCases, ConstantFacts
<1>4. Before(beam) /\ ~Before(beam') /\ Rows(beam) = Lines
  BY <1>1, <1>2, <1>3, ConstantFacts DEF Before, Rows
<1>5. /\ FullFrame \in Nat /\ FullFrame' = FullFrame /\ Lines' = Lines
      /\ Rows(beam) * Dots = FullFrame
  BY <1>1, <1>4, FreshState DEF FullFrame, Lines
<1>6. PICK short \in {0, 1} : Aged(short)
  BY DEF IInv, AgeInv
<1>7. last' = FullFrame - short
  BY <1>1, <1>3, <1>5, <1>6 DEF Aged
<1>8. last' = FullFrame \/ (last' = FullFrame - 1 /\ tv = "ntsc" /\ last # FullFrame - 1)
  BY <1>5, <1>6, <1>7 DEF Aged
<1>9. short = 1 => ~beam.odd
  BY <1>6 DEF Aged
<1>10. last' = FullFrame' - 1 => (Before(beam)' <=> beam'.odd)
  <2>1. last' = FullFrame - 1 => short = 1
    BY <1>5, <1>7
  <2> QED
    BY <2>1, <1>3, <1>4, <1>5, <1>9 DEF Before
<1>11. Rows(beam)' * Dots = 0
  BY <1>1, <1>4, OneLine, ConstantFacts DEF Rows, Before
<1>12. age' = (Rows(beam)' * Dots + beam'.pixel) - (1 + 0)
  BY <1>1, <1>11
<1>13. Aged(0)'
  BY <1>10, <1>12 DEF Aged
<1> QED
  BY <1>1, <1>8, <1>13 DEF AgeInv

LEMMA DotAge ==
  ASSUME IInv, Dot, ~StartsVBlank(beam')
  PROVE  AgeInv' /\ age' # 0
<1>1. /\ tv \in {"ntsc", "pal"} /\ beam \in Beams /\ tv' = tv /\ beam' = Moved(beam)
      /\ age \in Nat /\ age' = age + 1 /\ last' = last
      /\ ~(beam'.scanline = VBlankLine /\ beam'.pixel = 1)
  BY DEF IInv, TypeOK, Dot, StartsVBlank
<1>2. /\ beam.pixel \in Nat /\ beam.scanline \in Nat /\ beam.odd \in BOOLEAN
      /\ beam.pixel <= Dots - 1 /\ beam.scanline <= Lines - 1
  BY <1>1, ConstantFacts DEF Beams
<1>3. /\ FullFrame' = FullFrame /\ Lines' = Lines
      /\ Lines \in Nat /\ PreRender = Lines - 1 /\ VBlankLine \in Nat /\ Dots \in Nat /\ 4 < Dots
      /\ VBlankLine + 2 < Lines /\ 0 < VBlankLine
  BY <1>1, ConstantFacts DEF FullFrame, Lines
<1>4. PICK short \in {0, 1} : Aged(short)
  BY DEF IInv, AgeInv
<1> DEFINE rows == Rows(beam)
<1>5. rows \in Int /\ rows * Dots \in Int /\ (rows + 1) * Dots = rows * Dots + Dots
  BY <1>2, <1>3, OneLine DEF Rows
<1>6. age = (rows * Dots + beam.pixel) - (1 + short)
  BY <1>4 DEF Aged
<1>7. CASE beam'.pixel = beam.pixel + 1 /\ beam'.scanline = beam.scanline /\ beam'.odd = beam.odd
  <2>1. Before(beam') <=> Before(beam)
    BY <1>1, <1>2, <1>3, <1>7 DEF Before
  <2>2. Rows(beam') = rows
    BY <1>7, <2>1 DEF Rows
  <2>3. age' = (Rows(beam)' * Dots + beam'.pixel) - (1 + short)
    BY <1>1, <1>2, <1>3, <1>5, <1>6, <1>7, <2>2 DEF Rows, Before
  <2>4. Aged(short)'
    BY <1>1, <1>3, <1>4, <1>7, <2>1, <2>3 DEF Aged, Before
  <2> QED
    BY <1>1, <1>4, <2>4 DEF AgeInv
<1>8. CASE /\ beam.pixel = Dots - 1 /\ beam.scanline < PreRender
           /\ beam'.pixel = 0 /\ beam'.scanline = beam.scanline + 1 /\ beam'.odd = beam.odd
  <2>1. Before(beam') <=> Before(beam)
    BY <1>1, <1>2, <1>3, <1>8 DEF Before
  <2>2. Rows(beam') = rows + 1
    BY <1>2, <1>3, <1>8, <2>1 DEF Rows
  <2>3. Rows(beam)' * Dots = rows * Dots + Dots
    BY <1>3, <1>5, <2>2 DEF Rows, Before
  <2>4. age' = (Rows(beam)' * Dots + beam'.pixel) - (1 + short)
    BY <1>1, <1>2, <1>3, <1>4, <1>5, <1>6, <1>8, <2>3
  <2>5. Aged(short)'
    BY <1>1, <1>3, <1>4, <1>8, <2>1, <2>4 DEF Aged, Before
  <2> QED
    BY <1>1, <1>4, <2>5 DEF AgeInv
<1>9. CASE /\ beam.scanline = PreRender
           /\ beam.pixel = Dots - 1 \/ (beam.pixel = Dots - 2 /\ tv = "ntsc" /\ beam.odd)
           /\ beam'.pixel = 0 /\ beam'.scanline = 0 /\ beam'.odd = ~beam.odd
  <2>1. Before(beam') /\ ~Before(beam)
    BY <1>1, <1>2, <1>3, <1>9 DEF Before
  <2>2. Rows(beam') = rows + 1
    BY <1>2, <1>3, <1>9, <2>1 DEF Rows
  <2>3. Rows(beam)' * Dots = rows * Dots + Dots
    BY <1>3, <1>5, <2>2 DEF Rows, Before
  <2>4. short = 0 /\ (last = FullFrame - 1 => ~beam.odd)
    BY <1>4, <2>1 DEF Aged
  <2>5. CASE beam.pixel = Dots - 1
    <3>1. age' = (Rows(beam)' * Dots + beam'.pixel) - (1 + 0)
      BY <1>1, <1>2, <1>3, <1>5, <1>6, <1>9, <2>3, <2>4, <2>5
    <3>2. last' = FullFrame' - 1 => (Before(beam)' <=> beam'.odd)
      BY <1>1, <1>3, <1>9, <2>1, <2>4 DEF Before
    <3>3. Aged(0)'
      BY <3>1, <3>2 DEF Aged
    <3> QED
      BY <1>1, <3>3 DEF AgeInv
  <2>6. CASE beam.pixel = Dots - 2 /\ tv = "ntsc" /\ beam.odd
    <3>1. age' = (Rows(beam)' * Dots + beam'.pixel) - (1 + 1)
      BY <1>1, <1>2, <1>3, <1>5, <1>6, <1>9, <2>3, <2>4, <2>6
    <3>2. Before(beam)' /\ tv' = "ntsc" /\ ~beam'.odd /\ last' # FullFrame' - 1
      BY <1>1, <1>3, <1>9, <2>1, <2>4, <2>6 DEF Before
    <3>3. Aged(1)'
      BY <3>1, <3>2 DEF Aged
    <3> QED
      BY <1>1, <3>3 DEF AgeInv
  <2> QED
    BY <1>9, <2>5, <2>6
<1> QED
  BY <1>1, <1>7, <1>8, <1>9, MovedCases

LEMMA DotInv == IInv /\ Dot => IInv'
BY DotType, DotOnce, DotAtStart, DotAge DEF IInv

-----------------------------------------------------------------------------
(* The accesses of the CPU move neither the beam nor the age. *)

LEMMA AgeKept == AgeInv /\ UNCHANGED <<tv, beam, age, last>> => AgeInv'
BY DEF AgeInv, Aged, Rows, Before, FullFrame, Lines

LEMMA InVBlankKept == UNCHANGED <<tv, beam>> => (InVBlank' <=> InVBlank)
BY DEF InVBlank, PreRender, Lines

LEMMA AccessInv ==
  ASSUME IInv,
         \/ \E on \in BOOLEAN : WriteControl(on) \/ WriteMask(on)
         \/ ReadStatus \/ PollNmi \/ PollFrame
  PROVE  IInv' /\ age' = age
<1>1. /\ UNCHANGED <<tv, beam, age, last>> /\ Beams' = Beams
  BY DEF WriteControl, WriteMask, ReadStatus, PollNmi, PollFrame, Beams, Lines
<1>2. AgeInv' /\ (InVBlank' <=> InVBlank)
  BY <1>1, AgeKept, InVBlankKept DEF IInv
<1>3. /\ status \in Statuses /\ status.vblank \in BOOLEAN /\ status.nmi \in BOOLEAN
      /\ status.start \in BOOLEAN /\ seen \in Nat /\ polled \in Nat /\ gap \in 0 .. CycleDots
      /\ reg \in [nmi : BOOLEAN, render : BOOLEAN]
  BY DEF IInv, TypeOK, Statuses
<1>4. CASE \E on \in BOOLEAN : WriteControl(on) \/ WriteMask(on)
  <2>1. /\ status' = status /\ seen' = seen /\ polled' = polled /\ gap' = 0
        /\ reg' \in [nmi : BOOLEAN, render : BOOLEAN]
    BY <1>3, <1>4 DEF WriteControl, WriteMask, Access
  <2> QED
    BY <1>1, <1>2, <2>1 DEF IInv, TypeOK, OncePerVBlank, ReadOnce, CycleDots
<1>5. CASE ReadStatus
  <2>1. /\ status'.vblank = (status.vblank /\ status.start) /\ status'.nmi = status.nmi
        /\ status' \in Statuses
    BY <1>3, <1>5 DEF ReadStatus, Read, Statuses
  <2>2. /\ seen' = IF status.vblank /\ ~status.start THEN seen + 1 ELSE seen
        /\ polled' = polled /\ gap' = 0 /\ reg' = reg
    BY <1>5 DEF ReadStatus, Access
  <2>3. TypeOK'
    BY <1>1, <1>3, <2>1, <2>2 DEF IInv, TypeOK, CycleDots
  <2>4. seen' + (IF status'.vblank THEN 1 ELSE 0) <= 1 /\ seen' <= 1
    <3>1. CASE status.vblank /\ ~status.start
      BY <1>3, <2>1, <2>2, <3>1 DEF IInv, ReadOnce
    <3>2. CASE ~(status.vblank /\ ~status.start)
      BY <1>3, <2>1, <2>2, <3>2 DEF IInv, ReadOnce, OncePerVBlank
    <3> QED
      BY <3>1, <3>2
  <2>5. status'.vblank \/ status'.nmi => InVBlank'
    BY <1>2, <2>1 DEF IInv, OncePerVBlank
  <2>6. polled' + (IF status'.nmi THEN 1 ELSE 0) <= 1
    BY <2>1, <2>2 DEF IInv, OncePerVBlank
  <2>7. age' = age
    BY <1>1
  <2> QED
    BY <1>2, <2>3, <2>4, <2>5, <2>6, <2>7 DEF IInv, OncePerVBlank, ReadOnce
<1>6. CASE PollNmi
  <2>1. status'.vblank = status.vblank /\ status'.nmi = FALSE /\ status' \in Statuses
    BY <1>3, <1>6 DEF PollNmi, Statuses
  <2>2. /\ polled' = IF status.nmi THEN polled + 1 ELSE polled
        /\ seen' = seen /\ gap' = gap /\ reg' = reg
    BY <1>6 DEF PollNmi
  <2>3. polled' <= 1 /\ polled' \in Nat
    BY <1>3, <2>2 DEF IInv, OncePerVBlank
  <2> QED
    BY <1>1, <1>2, <1>3, <2>1, <2>2, <2>3 DEF IInv, TypeOK, OncePerVBlank, ReadOnce
<1>7. CASE PollFrame
  <2>1. status'.vblank = status.vblank /\ status'.nmi = status.nmi /\ status' \in Statuses
    BY <1>3, <1>7 DEF PollFrame, Statuses
  <2> QED
    BY <1>1, <1>2, <1>3, <1>7, <2>1 DEF IInv, TypeOK, OncePerVBlank, ReadOnce, PollFrame
<1> QED
  BY <1>1, <1>4, <1>5, <1>6, <1>7

LEMMA NextInv == IInv /\ [Next]_vars => IInv'
<1> SUFFICES ASSUME IInv, [Next]_vars PROVE IInv'
  OBVIOUS
<1>1. CASE UNCHANGED vars
  <2>1. UNCHANGED <<tv, beam, age, last>> /\ AgeInv' /\ (InVBlank' <=> InVBlank)
    BY <1>1, AgeKept, InVBlankKept DEF IInv, vars
  <2> QED
    BY <1>1, <2>1 DEF IInv, TypeOK, OncePerVBlank, ReadOnce, vars, Beams, Lines
<1> QED
  BY <1>1, DotInv, AccessInv, ResetInv DEF Next, Step

THEOREM Invariance == Spec => []IInv
BY InitInv, NextInv, PTL DEF Spec

\* Whatever the size of the frames and however the CPU reads, polls and toggles the enable bit:
\* one NMI and one sight of the flag for each VBlank, and none outside it.
THEOREM OnceForEachVBlank == Spec => []OncePerVBlank
<1>1. IInv => OncePerVBlank
  BY DEF IInv
<1> QED
  BY <1>1, Invariance, PTL

\* From VBlank to VBlank it is Lines x Dots dots, or one less on NTSC, but never one less twice
\* in a row.
THEOREM LengthsAlternate == Spec => FramesAlternate
<1> DEFINE Alternates ==
             age # 0 /\ age' = 0 =>
               \/ last' = FullFrame
               \/ last' = FullFrame - 1 /\ tv = "ntsc" /\ last # FullFrame - 1
<1>1. IInv /\ [Next]_vars => [Alternates]_vars
  <2> SUFFICES ASSUME IInv, Next PROVE Alternates
    BY DEF vars
  <2>1. CASE Dot
    BY <2>1, DotAtStart, DotAge
  <2>2. CASE Reset
    <3>1. age' # 0
      BY <2>2, FreshState DEF Reset, IInv, TypeOK
    <3> QED
      BY <3>1
  <2> QED
    BY <2>1, <2>2, AccessInv DEF Next, Step
<1> QED
  BY <1>1, Invariance, PTL DEF Spec, FramesAlternate
=============================================================================

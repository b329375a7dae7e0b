------------------------------- MODULE Scroll ---------------------------------
(***************************************************************************)
(* The address registers of the PPU and the background they scroll: v, t,  *)
(* fine x and the write toggle behind $2000, $2002, $2005, $2006 and       *)
(* $2007, and the fetches, loads and shifts that turn v into pixels, dot   *)
(* by dot, while the program writes the registers.                         *)
(*                                                                         *)
(* A byte of PPU memory is named by its address, so a pixel says which     *)
(* tile, row, column and palette it was made of.  Lines and name tables   *)
(* are scaled, tiles are not.                                              *)
(***************************************************************************)
EXTENDS Naturals, Sequences

CONSTANTS
  Tiles,            \* tiles of a visible line
  Columns,          \* tiles of a name table's row
  Rows, LastRow,    \* rows that coarse y can name, and the last one that holds tiles
  Fine,             \* lines of a tile
  LowRows,          \* rows that the second byte of an address tells apart
  Block,            \* rows and columns of tiles that share a palette
  Idle,             \* lines from the last visible one to the pre-render line
  CopyFrom, CopyTo, \* dots of the pre-render line that copy the vertical bits
  Prefetch,         \* the dot that starts to fetch for the next line
  PaletteFrom,      \* address of the palette
  Scrolls,          \* bytes the program writes to $2005
  Highs, Lows,      \* bytes it writes to $2006, first and second
  Masks             \* what it writes to $2001: background and sprites

Tile       == 8 \* dots of a tile, two for each of its four fetches
Lines      == (LastRow + 1) * Fine  \* visible lines: the height of a name table
PreRender  == Lines + Idle
LastShown  == Tiles * Tile
LastDot    == Prefetch + 2 * Tile + 3

\* The numbers that an address can have, and those of its second byte.
Span == Columns * Rows * 4 * (Fine \div 2)
LowSpan == Columns * LowRows

ASSUME ScrollAssumption ==
  /\ {Tiles, Columns, Rows, LastRow, LowRows, Block, Idle, CopyFrom, CopyTo, Prefetch}
       \subseteq Nat \ {0}
  /\ LastRow + 1 < Rows /\ Rows % LowRows = 0 /\ Fine \in {2, 4, 8}
  /\ LastShown + 1 < CopyFrom /\ CopyFrom <= CopyTo /\ CopyTo < Prefetch
  /\ Prefetch % Tile = 1
  /\ PaletteFrom \in Span \div 4 .. Span
  /\ Scrolls \subseteq Nat /\ Highs \subseteq Nat /\ Lows \subseteq 0 .. LowSpan - 1
  /\ Masks \subseteq [bg : BOOLEAN, sp : BOOLEAN]

\* v and t.  The fields from the lowest bit: coarse x, coarse y, name tables, fine y.
Address ==
  [cx : 0 .. Columns - 1, cy : 0 .. Rows - 1, nth : 0 .. 1, ntv : 0 .. 1, fy : 0 .. Fine - 1]

VARIABLES
  v, t, x, w,  \* the address registers
  down,        \* $2000 asks for increments by a row
  mask,        \* $2001
  buffer,      \* the byte the next read of $2007 returns
  latch,       \* name table, attribute and pattern latches
  shift,       \* the shift registers
  beam,        \* line and dot
  pixel,       \* what the last dot drew, or None
  hor, ver,    \* history: t when its horizontal and vertical bits were copied, or None
  writes,      \* history: the first writes of $2005 and $2006 since $2002 was read,
               \* and of $2000 in between
  run          \* history: the reads of $2007 since $2006 gave it an address, or None

vars == <<v, t, x, w, down, mask, buffer, latch, shift, beam, pixel, hor, ver, writes, run>>

None == [none |-> TRUE]

Renders == mask.bg \/ mask.sp

-----------------------------------------------------------------------------
(* Arithmetic on v. *)

\* increment_coarse_x
NextColumn(a) ==
  IF a.cx = Columns - 1 THEN [a EXCEPT !.cx = 0, !.nth = 1 - @] ELSE [a EXCEPT !.cx = @ + 1]

\* increment_fine_y
NextLine_LastRowOnly(a) ==
  IF a.fy < Fine - 1 THEN [a EXCEPT !.fy = @ + 1]
  ELSE IF a.cy >= LastRow THEN [a EXCEPT !.fy = 0, !.cy = 0, !.ntv = 1 - @]
  ELSE [a EXCEPT !.fy = 0, !.cy = @ + 1]
NextLine(a) ==
  IF a.fy < Fine - 1 THEN [a EXCEPT !.fy = @ + 1]
  ELSE IF a.cy = LastRow THEN [a EXCEPT !.fy = 0, !.cy = 0, !.ntv = 1 - @]
  ELSE IF a.cy = Rows - 1 THEN [a EXCEPT !.fy = 0, !.cy = 0]
  ELSE [a EXCEPT !.fy = 0, !.cy = @ + 1]

\* The number that the fields make, but for the top bit of fine y, which no address has.
Number(a) ==
  a.cx + Columns * (a.cy + Rows * (a.nth + 2 * (a.ntv + 2 * (a.fy % (Fine \div 2)))))

Fields(n) ==
  LET rest == n \div (Columns * Rows)
  IN  [cx |-> n % Columns, cy |-> (n \div Columns) % Rows,
       nth |-> rest % 2, ntv |-> (rest \div 2) % 2, fy |-> rest \div 4]

Beyond(a) == a.fy >= Fine \div 2

\* increment_vram_address
Advanced(a) == Fields((Number(a) + (IF down THEN Columns ELSE 1)) % Span)

\* copy_horizontal_bits and copy_vertical_bits
WithHorizontal(a, b) == [a EXCEPT !.cx = b.cx, !.nth = b.nth]
WithVertical(a, b) == [a EXCEPT !.cy = b.cy, !.ntv = b.ntv, !.fy = b.fy]

-----------------------------------------------------------------------------
(* Fetches and shift registers. *)

NameByte(a) == <<a.ntv, a.nth, a.cy, a.cx>>
AttributeByte(a) == <<a.ntv, a.nth, a.cy \div (2 * Block), a.cx \div (2 * Block)>>
Quadrant(a) == <<(a.cy \div Block) % 2, (a.cx \div Block) % 2>>

Fetched(l, a, dot) ==
  LET step == ((dot - 1) % Tile) \div 2 IN
  CASE step = 0 -> [l EXCEPT !.name = NameByte(a)]
    [] step = 1 -> [l EXCEPT !.attribute = AttributeByte(a)]
    [] step = 2 -> [l EXCEPT !.lo = <<l.name, a.fy>>]
    [] step = 3 -> [l EXCEPT !.hi = <<l.name, a.fy>>]

\* load_shift_registers: the low half; the palette is chosen by v as it is now.
Loaded(s, l, a) ==
  [i \in 1 .. 2 * Tile |->
     IF i <= Tile THEN s[i]
     ELSE [lo |-> l.lo, hi |-> l.hi, palette |-> <<l.attribute, Quadrant(a)>>, col |-> i - Tile - 1]]

Blank == [none |-> TRUE]

Shifted(s) == [i \in 1 .. 2 * Tile |-> IF i = 2 * Tile THEN Blank ELSE s[i + 1]]

\* get_pixel
PixelAt(s) == s[x + 1]

Fetches(d) == d \in 1 .. LastShown \/ d \in Prefetch .. Prefetch + 2 * Tile - 1

Loads(d) == d % Tile = 1 /\ d > 1 /\ (d <= LastShown + 1 \/ d >= Prefetch + Tile)

Preshifts(d) == d \in Prefetch + Tile .. Prefetch + 2 * Tile - 1

\* The two fetches at the end of a line that nothing uses.
Dummies(d) == d \in {Prefetch + 2 * Tile, Prefetch + 2 * Tile + 2}

-----------------------------------------------------------------------------
Zero == [cx |-> 0, cy |-> 0, nth |-> 0, ntv |-> 0, fy |-> 0]

NoLatch == [name |-> <<>>, attribute |-> <<>>, lo |-> <<>>, hi |-> <<>>]

Init ==
  /\ v = Zero /\ t = Zero /\ x = 0 /\ w = FALSE
  /\ down = FALSE /\ mask = [bg |-> FALSE, sp |-> FALSE] /\ buffer = 0
  /\ latch = NoLatch /\ shift = [i \in 1 .. 2 * Tile |-> Blank]
  /\ beam = [line |-> 0, dot |-> 1] /\ pixel = None
  /\ hor = None /\ ver = None /\ writes = <<>> /\ run = None

Moved(b) ==
  IF b.dot < LastDot THEN [b EXCEPT !.dot = @ + 1]
  ELSE [line |-> IF b.line = PreRender THEN 0 ELSE b.line + 1, dot |-> 0]

\* Timing::tick: of every other picture, which PpuFrame counts, the last dot is skipped.
Skips(b) == Renders /\ b.line = PreRender /\ b.dot = LastDot - 1
Following(b) == {Moved(b)} \cup (IF Skips(b) THEN {[line |-> 0, dot |-> 0]} ELSE {})

\* v over a dot of a rendered line: the load's step, the end of the line, the copies from t.
CopiesHorizontal(b) == b.dot = LastShown + 1
CopiesVertical(b) == b.line = PreRender /\ b.dot \in CopyFrom .. CopyTo

Walked(b) ==
  LET a == IF Loads(b.dot) THEN NextColumn(v) ELSE v
  IN  IF b.dot = LastShown THEN NextLine(a)
      ELSE IF CopiesHorizontal(b) THEN WithHorizontal(a, t)
      ELSE IF CopiesVertical(b) THEN WithVertical(a, t)
      ELSE a

\* The latches and, before they shift, the shift registers over such a dot.  The first of the
\* two fetches that nothing uses comes after a load, and so a tile further.
LatchAt(b) ==
  IF Fetches(b.dot) THEN Fetched(latch, v, b.dot)
  ELSE IF Dummies(b.dot)
    THEN [latch EXCEPT !.name = NameByte(IF Loads(b.dot) THEN NextColumn(v) ELSE v)]
    ELSE latch
LoadedAt(b) == IF Loads(b.dot) THEN Loaded(shift, LatchAt(b), v) ELSE shift

Draws(b) == b.line < Lines /\ b.dot \in 1 .. LastShown
ShiftAt(b) ==
  IF Preshifts(b.dot) \/ Draws(b) THEN Shifted(LoadedAt(b)) ELSE LoadedAt(b)

\* The beam comes to dot b.
DotAt(b) ==
  LET renders == Renders /\ (b.line < Lines \/ b.line = PreRender)
  IN  /\ beam' = b
      /\ v' = IF renders THEN Walked(b) ELSE v
      /\ latch' = IF renders THEN LatchAt(b) ELSE latch
      /\ shift' = IF renders THEN ShiftAt(b) ELSE shift
      /\ pixel' = IF renders /\ Draws(b) /\ mask.bg THEN PixelAt(LoadedAt(b)) ELSE None
      /\ hor' = IF renders /\ CopiesHorizontal(b) THEN t ELSE hor
      /\ ver' = IF renders /\ CopiesVertical(b) THEN t ELSE ver
      /\ run' = IF renders THEN None ELSE run
      /\ UNCHANGED <<t, x, w, down, mask, buffer, writes>>

\* Ppu::tick
Dot == \E b \in Following(beam) : DotAt(b)

pipeline == <<latch, shift, beam>>

Recorded(register, byte) ==
  IF Len(writes) < 4 THEN Append(writes, <<register, byte>>) ELSE writes

\* write_control: the name table bits of t, and the increment.
WriteControl(nth, ntv, d) ==
  /\ t' = [t EXCEPT !.nth = nth, !.ntv = ntv] /\ down' = d
  /\ writes' = IF writes = <<>> THEN writes ELSE Recorded(0, 0)
  /\ pixel' = None /\ run' = IF d = down THEN run ELSE None
  /\ UNCHANGED <<v, x, w, mask, buffer, hor, ver>> /\ UNCHANGED pipeline

\* write_mask: a line that is not rendered to its end loses its place.
WriteMask(m) ==
  /\ mask' = m /\ pixel' = None
  /\ IF m.bg \/ m.sp THEN UNCHANGED <<hor, ver>> ELSE hor' = None /\ ver' = None
  /\ UNCHANGED <<v, t, x, w, down, buffer, writes, run>> /\ UNCHANGED pipeline

\* get_status
ToggleCleared_Kept == w
ToggleCleared == FALSE

ReadStatus ==
  /\ w' = ToggleCleared /\ writes' = <<>> /\ pixel' = None
  /\ UNCHANGED <<v, t, x, down, mask, buffer, hor, ver, run>> /\ UNCHANGED pipeline

\* write_scroll
WriteScroll(byte) ==
  /\ IF ~w THEN /\ t' = [t EXCEPT !.cx = (byte \div Tile) % Columns]
                /\ x' = byte % Tile
           ELSE /\ t' = [t EXCEPT !.fy = byte % Fine, !.cy = (byte \div Fine) % Rows]
                /\ UNCHANGED x
  /\ w' = ~w /\ writes' = Recorded(5, byte) /\ pixel' = None
  /\ UNCHANGED <<v, down, mask, buffer, hor, ver, run>> /\ UNCHANGED pipeline

\* write_address: the first byte, less the bits that no address has, clears the top bit of fine
\* y, the second copies t to v.
HighBits(byte) == byte % (Span \div LowSpan)

WriteAddress(byte) ==
  /\ IF ~w THEN /\ t' = Fields(HighBits(byte) * LowSpan + (Number(t) % LowSpan))
                /\ UNCHANGED <<v, hor, ver, run>>
           ELSE /\ t' = [t EXCEPT !.cx = byte % Columns,
                                  !.cy = LowRows * (@ \div LowRows)
                                           + ((byte \div Columns) % LowRows)]
                /\ v' = t' /\ hor' = None /\ ver' = None
                /\ run' = IF Beyond(v') THEN None
                           ELSE [from |-> Number(v'), reads |-> 0, got |-> 0]
  /\ w' = ~w /\ writes' = Recorded(6, byte) /\ pixel' = None
  /\ UNCHANGED <<x, down, mask, buffer>> /\ UNCHANGED pipeline

\* should_use_rendering_glitch
Glitches == Renders /\ beam.line < Lines

Accessed == IF Glitches THEN NextLine(NextColumn(v)) ELSE Advanced(v)

\* read_data: a palette entry at once, any other byte one read late.  Behind a palette entry the
\* buffer takes the byte of the name tables that lies beneath it; no byte is fetched beyond.
Beneath(n) == IF n >= PaletteFrom THEN n - Span \div 4 ELSE n

Result_Unbuffered == Number(v)
Result == IF ~Beyond(v) /\ Number(v) >= PaletteFrom THEN Number(v) ELSE buffer

ReadData ==
  /\ v' = Accessed /\ hor' = None /\ ver' = None /\ pixel' = None
  /\ buffer' = IF Beyond(v) THEN buffer ELSE Beneath(Number(v))
  /\ run' = IF run = None \/ Glitches \/ Renders THEN None
            ELSE [run EXCEPT !.reads = (@ + 1) % Span, !.got = Result]
  /\ UNCHANGED <<t, x, w, down, mask, writes>> /\ UNCHANGED pipeline

\* write_data, but for the byte it stores
WriteData ==
  /\ v' = Accessed /\ hor' = None /\ ver' = None /\ pixel' = None
  /\ run' = None
  /\ UNCHANGED <<t, x, w, down, mask, buffer, writes>> /\ UNCHANGED pipeline

Reset ==
  /\ v' = Zero /\ t' = Zero /\ x' = 0 /\ w' = FALSE
  /\ down' = FALSE /\ mask' = [bg |-> FALSE, sp |-> FALSE] /\ buffer' = 0
  /\ latch' = NoLatch /\ shift' = [i \in 1 .. 2 * Tile |-> Blank]
  /\ beam' = [line |-> 0, dot |-> 1] /\ pixel' = None
  /\ hor' = None /\ ver' = None /\ writes' = <<>> /\ run' = None

Access ==
  \/ \E n, d \in {0, 1} : WriteControl(n, n, d = 1)
  \/ \E m \in Masks : WriteMask(m)
  \/ \E b \in Scrolls : WriteScroll(b)
  \/ \E b \in IF w THEN Lows ELSE Highs : WriteAddress(b)
  \/ ReadStatus \/ ReadData \/ WriteData

Next == Dot \/ Access \/ Reset

Spec == Init /\ [][Next]_vars

-----------------------------------------------------------------------------
(* Properties. *)

\* The column of the plane that screen column c shows when a line starts at a with fine x f.
ColumnAt(a, f, c) ==
  LET all == (a.nth * Columns + a.cx) * Tile + f + c
  IN  [nth |-> (all \div (Columns * Tile)) % 2, cx |-> (all \div Tile) % Columns, col |-> all % Tile]

\* The row of the plane that a line shows when the picture starts at a: rows behind the last one
\* are shown to their end, and are followed by the first row of the same name table.
RowAt(a, line) ==
  LET n     == a.cy * Fine + a.fy + line
      past  == a.cy > LastRow /\ n >= Rows * Fine
      m     == IF past THEN n - Rows * Fine ELSE n
      wraps == IF a.cy > LastRow /\ ~past THEN 0 ELSE m \div Lines
      row   == IF a.cy > LastRow /\ ~past THEN m ELSE m % Lines
  IN  [ntv |-> (a.ntv + wraps) % 2, cy |-> row \div Fine, fy |-> row % Fine]

\* Every pixel of a line that nothing disturbed shows the tile, row, column and palette at the
\* scroll position: its column as the program had it in t when the line before ended, its row as
\* t was when the picture began, however t is written in between; both wrap into the next name
\* table.  $2006 and $2007, and rendering turned off, disturb; fine x acts at once.
PixelsScrolled ==
  (pixel # None /\ hor # None /\ ver # None) =>
    LET c == ColumnAt(hor, x, beam.dot - 1)
        r == RowAt(ver, beam.line)
        a == [cx |-> c.cx, nth |-> c.nth, cy |-> r.cy, ntv |-> r.ntv]
    IN  pixel = [lo |-> <<NameByte(a), r.fy>>, hi |-> <<NameByte(a), r.fy>>,
                 palette |-> <<AttributeByte(a), Quadrant(a)>>, col |-> c.col]

Registers(ws) == [i \in DOMAIN ws |-> ws[i][1]]

\* The writes since the last read of $2002 have just become a pair.
Paired(ws) == Len(writes') > Len(writes) /\ Registers(writes') = ws

Landed ==
  LET byte(i) == writes'[i][2]
  IN  /\ Paired(<<5, 5>>) =>
           /\ t'.cx * Tile + x' = byte(1) % (Columns * Tile)
           /\ t'.cy * Fine + t'.fy = byte(2) % (Rows * Fine)
      /\ Paired(<<6, 6>>) => Number(v') = (byte(1) * LowSpan + byte(2)) % Span
      /\ Paired(<<6, 5, 5, 6>>) =>
           /\ v'.fy = byte(2) % Fine /\ x' = byte(3) % Tile
           /\ v'.cx + Columns * (v'.cy % LowRows) = byte(4)
           /\ v'.cy \div LowRows = ((byte(2) \div Fine) % Rows) \div LowRows
           /\ v'.nth + 2 * v'.ntv = (byte(1) \div (Rows \div LowRows)) % 4

\* A pair of writes that follows a read of $2002 sets what it is meant to, whatever a program or
\* an NMI handler left of an earlier pair: $2005 twice the scroll position, $2006 twice the
\* address, and $2006, $2005, $2005, $2006, y before x, both at once.
PairLands == [][Landed]_vars

\* Outside of rendering, reads of $2007 return the bytes from the address on in order: the first
\* returns what an earlier read left, and each other one the byte before the address, or beneath
\* it when that was the palette, which answers at once itself.  A write of $2005 between the
\* halves of an address may take v beyond all addresses, which a read only brings it back from.
ReadsInOrder ==
  (run # None /\ run.reads > 0) =>
    LET at(k) == (run.from + k * (IF down THEN Columns ELSE 1)) % Span
    IN  IF at(run.reads - 1) >= PaletteFrom THEN run.got = at(run.reads - 1)
        ELSE run.reads > 1 => run.got = Beneath(at(run.reads - 2))
=============================================================================

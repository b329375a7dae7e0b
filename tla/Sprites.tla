------------------------------- MODULE Sprites --------------------------------
(***************************************************************************)
(* The sprites of the PPU: OAM and its address, the evaluation that picks  *)
(* the sprites of the next line dot by dot, the patterns fetched for them, *)
(* the buffers of two lines, and what a pixel shows.  The program writes   *)
(* registers and transfers pages to OAM at any dot.                        *)
(*                                                                         *)
(* A line is scaled: clearing secondary OAM and fetching take a dot for    *)
(* each slot.  A pattern is its address, and a sprite is one pixel wide.   *)
(***************************************************************************)
EXTENDS Naturals, Sequences, FiniteSets

CONSTANTS
  Count,     \* sprites in OAM
  Slots,     \* sprites shown on one line
  EvalDots,  \* dots of the evaluation
  Visible,   \* visible lines: a Y from here on is off the screen
  Top,       \* the greatest byte
  Small,     \* lines of a small sprite, half of a tall one
  Pages,     \* the contents a transfer may bring to OAM
  Addresses, \* what the program writes to $2003
  Written,   \* to $2004
  Masks,     \* what it writes to $2001: background, sprites, and each in the left column
  Controls,  \* what it writes to $2000: sprite height and pattern table
  Opaque,    \* the pattern rows with an opaque pixel
  Background \* the columns in which the background is opaque

ASSUME SpritesAssumption ==
  /\ {Count, Slots, EvalDots, Visible, Top, Small} \subseteq Nat \ {0}
  /\ Visible < Top /\ Slots < Count /\ Count % 2 = 0
  /\ 8 * Slots + 2 * (Count - Slots) <= EvalDots

Bytes == 0 .. Top
OamBytes == 0 .. 4 * Count - 1
NoSlot == Slots

ASSUME InputsAssumption ==
  /\ Pages \subseteq [OamBytes -> Bytes] /\ Addresses \subseteq OamBytes /\ Written \subseteq Bytes
  /\ Masks \subseteq [bg : BOOLEAN, sp : BOOLEAN, bgLeft : BOOLEAN, spLeft : BOOLEAN]
  /\ Controls \subseteq [height : {Small, 2 * Small}, table : 0 .. 1]

VARIABLES
  oam, addr,    \* OAM and OAMADDR
  secondary,    \* secondary OAM
  eval,         \* sprites_found, n, m, cycle and in_range of the evaluation
  next, shown,  \* the buffers, their count and the slot of sprite 0: next line, this line
  ready,        \* sprite_buffers_ready
  mask, ctrl,   \* $2001 and $2000
  beam,         \* line and dot
  flags,        \* sprite 0 hit and sprite overflow
  plan,         \* history: what the line under evaluation has to give, or None
  due,          \* history: the sprites that the line being drawn has to show, and the Y of
                \* sprite 0 they were chosen with, or None
  home,         \* history: OAMADDR is 0 for all the program and the beam did to it
  intent        \* history: the page that OAM has to hold, or None

vars == <<oam, addr, secondary, eval, next, shown, ready, mask, ctrl, beam, flags,
          plan, due, home, intent>>

None == [none |-> TRUE]

Renders(m) == m.bg \/ m.sp

\* The dots: 0, a dot for each slot cleared, the evaluation, a dot for each slot fetched, the swap.
SwapDot    == 2 * Slots + EvalDots + 1
ClearAt(d) == d \in 1 .. Slots
EvalAt(d)  == d \in Slots + 1 .. Slots + EvalDots
FetchAt(d) == d \in Slots + EvalDots + 1 .. SwapDot - 1
DrawAt(d)  == ClearAt(d) \/ EvalAt(d)
Column(d)  == d - 1
LastColumn == Slots + EvalDots - 1

PreRender == Visible + 1

\* is_actively_rendering
Rendering(b) == Renders(mask) /\ (b.line < Visible \/ b.line = PreRender)

-----------------------------------------------------------------------------
(* Evaluation. *)

\* A sprite at y is on the line after line when the distance to its top fits its height.
OnLine(y, line) == y <= line /\ line < y + ctrl.height /\ y < Visible

Idle == [found |-> 0, n |-> 0, m |-> 0, cycle |-> 0, inRange |-> FALSE]

\* Slots are full: a byte is taken for a Y, and both indices advance.
ScanRead(e, line) == [e EXCEPT !.inRange = OnLine(oam[4 * e.n + e.m], line)]
ScanStep_OnlyN(e) == [e EXCEPT !.n = @ + 1]
ScanStep(e)       == [e EXCEPT !.n = @ + 1, !.m = (@ + 1) % 4]

\* A slot is free: Y, then the other three bytes of a sprite in range.
ReadY(e, line) == [e EXCEPT !.inRange = OnLine(oam[4 * e.n], line), !.cycle = 1]
Skip(e)        == [e EXCEPT !.n = @ + 1, !.cycle = 0]
Taken(e)       == [e EXCEPT !.n = @ + 1, !.cycle = 0, !.found = @ + 1]

\* evaluate_sprites, on an odd or an even dot, once n is inside OAM.
Evaluated(e, odd, line) ==
  CASE e.found >= Slots /\ odd  -> ScanRead(e, line)
    [] e.found >= Slots /\ ~odd -> ScanStep(e)
    [] e.found < Slots /\ e.cycle = 0 -> IF odd THEN ReadY(e, line) ELSE e
    [] e.found < Slots /\ e.cycle = 1 ->
         IF odd THEN e ELSE IF e.inRange THEN [e EXCEPT !.cycle = 2] ELSE Skip(e)
    [] e.found < Slots /\ e.cycle \in {2, 4, 6} -> IF odd THEN [e EXCEPT !.cycle = @ + 1] ELSE e
    [] e.found < Slots /\ e.cycle \in {3, 5} -> IF odd THEN e ELSE [e EXCEPT !.cycle = @ + 1]
    [] e.found < Slots /\ e.cycle = 7 -> IF odd THEN e ELSE Taken(e)

\* The byte of sprite n that an even dot copies to secondary OAM, if it copies one.
Copies(e, odd) ==
  /\ e.found < Slots /\ ~odd
  /\ e.cycle \in {1, 3, 5, 7} /\ (e.cycle = 1 => e.inRange)

Copied(e) ==
  LET byte == e.cycle \div 2
  IN  [secondary EXCEPT ![4 * e.found + byte] = oam[4 * e.n + byte]]

\* With the slots full, the even dot after a byte in range was read raises the flag.
Overflows(e, odd) == e.found >= Slots /\ ~odd /\ e.inRange

-----------------------------------------------------------------------------
(* Patterns and buffers. *)

\* An attribute byte: bit 0 is the vertical flip, bit 1 an unimplemented bit, bit 2 the priority.
Masked(attr) == attr - 2 * ((attr \div 2) % 2)
Flips(attr) == attr % 2 = 1
Behind(attr) == attr \div 4 = 1

\* fetch_sprite_pattern.  The row of a sprite that is not on the line wraps as a byte does.
Row(y, attr, line) ==
  LET W   == Top + 1
      row == ((2 * W + line + 1) - ((y + 1) % W)) % W
  IN  IF Flips(attr) THEN ((W + ctrl.height) - (1 + row)) % W ELSE row

Pattern(tile, row) ==
  IF ctrl.height = Small
    THEN <<ctrl.table, tile, row>>
    ELSE <<tile % 2, (2 * (tile \div 2)) + (IF row >= Small THEN 1 ELSE 0),
           IF row >= Small THEN row - Small ELSE row>>

Entry(y, tile, attr, x, line) ==
  [pattern |-> Pattern(tile, Row(y, attr, line)), x |-> x, behind |-> Behind(attr)]

FetchedSlot(i, line) ==
  Entry(secondary[4 * i], secondary[4 * i + 1], secondary[4 * i + 2], secondary[4 * i + 3], line)

EmptyBuffers ==
  [buf |-> [i \in 0 .. Slots - 1 |-> [pattern |-> <<0, 0, 0>>, x |-> 0, behind |-> FALSE]],
   count |-> 0, zero |-> NoSlot]

\* get_pixel: the first slot with an opaque pixel there, or NoSlot.
SpriteAt(c) ==
  LET hits == {i \in 0 .. shown.count - 1 : shown.buf[i].x = c /\ shown.buf[i].pattern \in Opaque}
  IN  IF (c = 0 /\ ~mask.spLeft) \/ hits = {} THEN NoSlot
      ELSE CHOOSE i \in hits : \A j \in hits : i <= j

\* What Ppu::tick draws: the sprite, unless it is behind an opaque background.
BackgroundAt(c) == mask.bg /\ c \in Background

Drawn(c) ==
  IF SpriteAt(c) = NoSlot \/ (BackgroundAt(c) /\ shown.buf[SpriteAt(c)].behind)
    THEN None ELSE shown.buf[SpriteAt(c)]

\* What the dot writes to the screen buffer.  The colour, with grayscale and emphasis, is data
\* of the layer; where nothing is rendered, the backdrop is drawn.
Backdrop == [layer |-> "backdrop"]
Ground(c) == IF BackgroundAt(c) THEN [layer |-> "background"] ELSE Backdrop

Painted(c) ==
  IF ~Renders(mask) THEN Backdrop ELSE IF Drawn(c) = None THEN Ground(c) ELSE Drawn(c)

\* sprite_0_pixel_at
ZeroAt(c) ==
  /\ c # LastColumn /\ shown.zero # NoSlot
  /\ shown.buf[shown.zero].x = c /\ shown.buf[shown.zero].pattern \in Opaque

\* The sprite 0 test of Ppu::tick: the Y it asks for is the one OAM holds now.
Hits_AnyLine(b) ==
  LET c == Column(b.dot)
  IN  /\ mask.bg /\ mask.sp /\ oam[0] < Visible - 1
      /\ (c = 0 => mask.bgLeft /\ mask.spLeft) /\ ZeroAt(c) /\ c \in Background
Hits(b) ==
  LET c == Column(b.dot)
  IN  /\ mask.bg /\ mask.sp /\ oam[0] < Visible - 1
      /\ b.line >= oam[0] + 1 /\ b.line < oam[0] + 1 + ctrl.height
      /\ (c = 0 => mask.bgLeft /\ mask.spLeft) /\ ZeroAt(c) /\ c \in Background

-----------------------------------------------------------------------------
(* What a line has to show, by definition. *)

OfSprite(n, line) ==
  Entry(oam[4 * n], oam[4 * n + 1], oam[4 * n + 2], oam[4 * n + 3], line)

InRange(line) == {n \in 0 .. Count - 1 : OnLine(oam[4 * n], line)}

Rank(n, S) == Cardinality({k \in S : k < n})

\* The first Slots sprites on the line, in the order of OAM.
Wanted(line) ==
  LET S == InRange(line)
      nth(i) == CHOOSE n \in S : Rank(n, S) = i
      size == IF Cardinality(S) < Slots THEN Cardinality(S) ELSE Slots
  IN  [i \in 0 .. size - 1 |-> [sprite |-> nth(i), entry |-> OfSprite(nth(i), line)]]

\* After the last slot is filled, the k-th sprite from there is tried by its byte k % 4.
ScanFinds(line) ==
  LET S == InRange(line)
      lastTaken == CHOOSE n \in S : Rank(n, S) = Slots - 1
  IN  /\ Cardinality(S) >= Slots
      /\ \E n \in lastTaken + 1 .. Count - 1 :
           LET k == (n - lastTaken) - 1 IN OnLine(oam[4 * n + (k % 4)], line)

-----------------------------------------------------------------------------
Init ==
  /\ oam = [i \in OamBytes |-> Top] /\ addr = 0
  /\ secondary = [i \in 0 .. 4 * Slots - 1 |-> Top]
  /\ eval = Idle /\ next = EmptyBuffers /\ shown = EmptyBuffers /\ ready = FALSE
  /\ mask = [bg |-> FALSE, sp |-> FALSE, bgLeft |-> FALSE, spLeft |-> FALSE]
  /\ ctrl = [height |-> Small, table |-> 0]
  /\ beam = [line |-> 0, dot |-> 1]
  /\ flags = [hit |-> FALSE, overflow |-> FALSE]
  /\ plan = None /\ due = None /\ home = TRUE /\ intent = None

Moved(b) ==
  IF b.dot < SwapDot THEN [b EXCEPT !.dot = @ + 1]
  ELSE [line |-> (b.line + 1) % (PreRender + 1), dot |-> 0]

StartLine ==
  /\ eval' = Idle /\ next' = [next EXCEPT !.zero = NoSlot]
  /\ plan' = [list |-> Wanted(beam'.line), overflow |-> flags'.overflow \/ ScanFinds(beam'.line)]
  /\ UNCHANGED <<secondary, shown, ready, due>>

ClearSlot ==
  /\ secondary' = [i \in 0 .. 4 * Slots - 1 |->
                     IF i \div 4 = beam'.dot - 1 THEN Top ELSE secondary[i]]
  /\ UNCHANGED <<eval, next, shown, ready, plan, due>>

\* evaluate_sprites, and finalize_evaluation on its last dot
EvalDot ==
  LET odd == (beam'.dot - Slots) % 2 = 1
      zeroTaken == eval.found < Slots /\ eval.cycle = 7 /\ ~odd /\ eval.n = 0
      e == IF eval.n >= Count THEN eval ELSE Evaluated(eval, odd, beam'.line)
  IN  /\ eval' = e
      /\ secondary' = IF eval.n < Count /\ Copies(eval, odd) THEN Copied(eval) ELSE secondary
      /\ next' = [next EXCEPT
                    !.zero  = IF eval.n < Count /\ zeroTaken THEN eval.found ELSE @,
                    !.count = IF beam'.dot = Slots + EvalDots THEN e.found ELSE @]
      /\ UNCHANGED <<shown, ready, plan, due>>

FetchDot ==
  LET i == beam'.dot - (Slots + EvalDots + 1)
  IN  /\ next' = IF i < eval.found
                 THEN [next EXCEPT !.buf = [@ EXCEPT ![i] = FetchedSlot(i, beam'.line)]] ELSE next
      /\ UNCHANGED <<eval, secondary, shown, ready, plan, due>>

\* swap_buffers: the first swap after power on only marks the buffers ready.
Swapped_CountKept(a, b) == [a EXCEPT !.buf = b.buf, !.zero = b.zero]
Swapped(a, b) == b

SwapBuffers ==
  /\ ready' = TRUE
  /\ IF ready THEN shown' = Swapped(shown, next) /\ next' = Swapped(next, shown)
              ELSE UNCHANGED <<shown, next>>
  /\ due' = IF ready /\ plan # None THEN [list |-> plan.list, y |-> oam[0]] ELSE None
  /\ plan' = None
  /\ UNCHANGED <<eval, secondary>>

NoSprites ==
  /\ due' = IF beam'.dot = SwapDot /\ beam'.line < Visible THEN None ELSE due
  /\ plan' = None
  /\ UNCHANGED <<eval, secondary, next, shown, ready>>

\* The flags after a dot: cleared at the top of the pre-render line, set where they are found.
FlagsAt(b) ==
  LET odd == (b.dot - Slots) % 2 = 1
      live == b.line < Visible /\ Renders(mask)
  IN  IF b.line = PreRender /\ b.dot = 0 THEN [hit |-> FALSE, overflow |-> FALSE]
      ELSE [hit |-> flags.hit \/ (live /\ DrawAt(b.dot) /\ Hits(b)),
            overflow |-> flags.overflow \/
              (live /\ EvalAt(b.dot) /\ eval.n < Count /\ Overflows(eval, odd))]

\* OAM at the first fetch of the pre-render line: OAMADDR's row lands on the first one.
CorruptedOam ==
  [i \in OamBytes |->
     IF i >= 8 THEN oam[i]
     ELSE LET from == 8 * (addr \div 8) + i
          IN  IF from % 4 = 2 THEN Masked(oam[from]) ELSE oam[from]]

Corrupts(b) ==
  Rendering(b) /\ b.line = PreRender /\ b.dot = Slots + EvalDots + 1 /\ addr >= 8

Clears_VisibleOnly(b) == Rendering(b) /\ FetchAt(b.dot) /\ b.line < Visible
Clears(b) == Rendering(b) /\ FetchAt(b.dot)

MoveOam ==
  LET clears == Rendering(beam') /\ FetchAt(beam'.dot)
  IN  /\ oam' = IF Corrupts(beam') THEN CorruptedOam ELSE oam
      /\ addr' = IF Clears(beam') THEN 0 ELSE addr
      /\ home' = (home \/ clears)
      /\ intent' = IF clears /\ ~home /\ beam'.line = PreRender THEN None ELSE intent

\* Ppu::tick
Dot ==
  /\ beam' = Moved(beam)
  /\ flags' = FlagsAt(beam')
  /\ MoveOam
  /\ IF ~(beam'.line < Visible /\ Renders(mask)) THEN NoSprites
     ELSE CASE beam'.dot = 0 -> StartLine
            [] ClearAt(beam'.dot) -> ClearSlot
            [] EvalAt(beam'.dot) -> EvalDot
            [] FetchAt(beam'.dot) -> FetchDot
            [] beam'.dot = SwapDot -> SwapBuffers
  /\ UNCHANGED <<mask, ctrl>>

pipeline == <<secondary, eval, next, shown, ready>>

\* write_mask and write_control.  A line disturbed in them promises nothing.
WriteMask(m) ==
  /\ mask' = m
  /\ plan' = IF Renders(m) THEN plan ELSE None
  /\ UNCHANGED <<oam, addr, ctrl, beam, flags, due, home, intent>> /\ UNCHANGED pipeline

WriteControl(c) ==
  /\ ctrl' = c /\ plan' = IF c = ctrl THEN plan ELSE None
  /\ due' = IF c.height = ctrl.height THEN due ELSE None
  /\ UNCHANGED <<oam, addr, mask, beam, flags, home, intent>> /\ UNCHANGED pipeline

WriteOamAddress(a) ==
  /\ addr' = a /\ home' = (a = 0)
  /\ UNCHANGED <<oam, mask, ctrl, beam, flags, plan, due, intent>> /\ UNCHANGED pipeline

\* execute_oam_dma: as many writes of $2004 as OAM has bytes.  OAMADDR comes back to where it
\* was, by ones or, while rendering, by fours; then nothing is written.
Transfer(page) ==
  /\ ~Rendering(beam)
  /\ oam' = [i \in OamBytes |-> page[((i + 4 * Count) - addr) % (4 * Count)]]
  /\ intent' = IF home THEN page ELSE None
  /\ UNCHANGED <<addr, mask, ctrl, beam, flags, plan, due, home>> /\ UNCHANGED pipeline

\* write_oam_data
WriteOam(v) ==
  /\ IF Rendering(beam)
       THEN addr' = (addr + 4) % (4 * Count) /\ UNCHANGED <<oam, intent>>
       ELSE /\ oam' = [oam EXCEPT ![addr] = v] /\ addr' = (addr + 1) % (4 * Count)
            /\ intent' = None
  /\ home' = FALSE
  /\ UNCHANGED <<mask, ctrl, beam, flags, plan, due>> /\ UNCHANGED pipeline

\* Ppu::reset: the buffers of the two lines and their counts stay.
Reset ==
  /\ oam' = [i \in OamBytes |-> Top] /\ addr' = 0
  /\ secondary' = [i \in 0 .. 4 * Slots - 1 |-> Top] /\ eval' = Idle
  /\ mask' = [bg |-> FALSE, sp |-> FALSE, bgLeft |-> FALSE, spLeft |-> FALSE]
  /\ ctrl' = [height |-> Small, table |-> 0]
  /\ beam' = [line |-> 0, dot |-> 1]
  /\ flags' = [hit |-> FALSE, overflow |-> FALSE]
  /\ plan' = None /\ due' = None /\ home' = TRUE /\ intent' = None
  /\ UNCHANGED <<next, shown, ready>>

Write ==
  \/ \E m \in Masks : WriteMask(m)
  \/ \E c \in Controls : WriteControl(c)
  \/ \E a \in Addresses : WriteOamAddress(a)
  \/ \E p \in Pages : Transfer(p)
  \/ \E v \in Written : WriteOam(v)

Next == Dot \/ Write \/ Reset

Spec == Init /\ [][Next]_vars

-----------------------------------------------------------------------------
(* Properties. *)

\* A line that was evaluated, fetched and swapped undisturbed is followed by one whose every
\* pixel shows, of the first Slots sprites in range in the order of OAM, the first opaque there,
\* or the background if that one is behind it, even with another in front.  The line after the
\* last visible one is line 0 of the next frame, and what was in the buffers when rendering was
\* off, or before a reset, is gone with the next swap.  The sprites are shown when the program
\* enables the background only.
SpritesAsEvaluated ==
  DrawAt(beam.dot) /\ beam.line < Visible /\ Renders(mask) /\ due # None =>
    LET c    == Column(beam.dot)
        here == {i \in DOMAIN due.list : /\ due.list[i].entry.x = c
                                         /\ due.list[i].entry.pattern \in Opaque}
        first == due.list[CHOOSE i \in here : \A j \in here : i <= j].entry
        ground == [layer |-> IF mask.bg /\ c \in Background THEN "background" ELSE "backdrop"]
    IN  IF (c = 0 /\ ~mask.spLeft) \/ here = {} THEN Painted(c) = ground
        ELSE Painted(c) = IF first.behind /\ mask.bg /\ c \in Background THEN ground ELSE first

\* The overflow flag is set by a line exactly when the scan that starts behind its last slot,
\* with its byte moving along, meets a byte in range; the evaluation reaches the last sprite in
\* the dots it has.
OverflowAsScanned ==
  (FetchAt(beam.dot) /\ plan # None) => (eval.n = Count /\ flags.overflow = plan.overflow)

\* On a dot of a line whose sprites are due, the hit flag is up from then on or is raised.
HitRule ==
  LET c == Column(beam'.dot)
  IN  /\ beam'.line < Visible /\ DrawAt(beam'.dot) /\ beam' = Moved(beam)
      /\ Renders(mask) /\ due # None /\ (beam'.line = 0 \/ due.y = oam[0])
      => (flags'.hit <=>
           \/ flags.hit
           \/ /\ mask.bg /\ mask.sp /\ (c = 0 => mask.bgLeft /\ mask.spLeft)
              /\ c \in Background /\ c # LastColumn /\ beam'.line > 0
              /\ \E i \in DOMAIN due.list : /\ due.list[i].sprite = 0 /\ due.list[i].entry.x = c
                                           /\ due.list[i].entry.pattern \in Opaque)

\* The hit flag is raised on exactly the dots where sprite 0, shown on this line, is opaque over
\* an opaque background, both enabled and unclipped; never on line 0, in the last column, or for
\* a sprite 0 that other sprites hide behind.  A program that turns rendering off in a line, moves
\* sprite 0 and turns it on again is promised nothing: the test asks for the Y in OAM.
HitAsShown == [][HitRule]_vars

\* OAM holds the page of the last transfer that was made outside of rendering with OAMADDR at 0:
\* fetching brings OAMADDR back there after whatever the program did to it, and only a program
\* that leaves it elsewhere until the pre-render line, or writes $2004, loses the page.
OamIsPage == intent # None => oam = intent
=============================================================================

----------------------------- MODULE ScrollProofs -----------------------------
(***************************************************************************)
(* For name tables, lines and tiles of every size: every pixel of a line   *)
(* that nothing disturbed is the one at the scroll position, pairs of      *)
(* writes arrive where they belong, and bytes are read in order.           *)
(***************************************************************************)
EXTENDS Scroll, Integers, TLAPS

(***************************************************************************)
(* The inductive invariant.                                                *)
(***************************************************************************)
ScrollTypeOK ==
  /\ v \in Address /\ t \in Address /\ x \in 0 .. Tile - 1 /\ w \in BOOLEAN
  /\ down \in BOOLEAN /\ mask \in [bg : BOOLEAN, sp : BOOLEAN] /\ buffer \in Nat
  /\ beam \in [line : 0 .. PreRender, dot : 0 .. LastDot]
  /\ hor = None \/ hor \in Address
  /\ ver = None \/ ver \in Address

Rendered(line) == line < Lines \/ line = PreRender

\* Without rendering there is no undisturbed line.
Tracks == ~Renders => hor = None /\ ver = None

\* The column k tiles on from a, in the two name tables side by side.
Along(a, k) ==
  [nth |-> ((a.nth * Columns + a.cx + k) \div Columns) % 2, cx |-> (a.cx + k) % Columns]

\* The tiles that v has passed at dot b since the horizontal bits were copied to it: the two that
\* are fetched ahead, and those of the line.
Ahead(dot) == IF dot < Prefetch + Tile THEN 0 ELSE IF dot < Prefetch + 2 * Tile THEN 1 ELSE 2
OnLine(dot) == IF dot = 0 THEN 2 ELSE 2 + ((dot - 1) \div Tile)
Passed(b) ==
  IF ~Rendered(b.line) THEN 2
  ELSE IF b.dot <= LastShown THEN OnLine(b.dot) ELSE Ahead(b.dot)

\* Address a is as far into the line as the beam at b, for a line that started at h.
ColumnKept(a, h, b) ==
  h # None => a.cx = Along(h, Passed(b)).cx /\ a.nth = Along(h, Passed(b)).nth

\* The line that v is at: the next one from the end of the line on.
LineAt(b) == IF b.line = PreRender THEN 0 ELSE IF b.dot < LastShown THEN b.line ELSE b.line + 1

\* Address a is as far into the picture as the beam at b, for a picture that started at r.
Positioned(b) == b.line < Lines \/ (b.line = PreRender /\ b.dot >= CopyFrom)
RowOf(a) == [ntv |-> a.ntv, cy |-> a.cy, fy |-> a.fy]
RowKept(a, r, b) == r # None /\ Positioned(b) => RowOf(a) = RowAt(r, LineAt(b))

\* Latches l hold what the dots since the last load have fetched at a.
Latching(dot) == dot \in 1 .. LastShown - 1 \/ dot \in Prefetch .. Prefetch + 2 * Tile - 1

LatchKept(l, a, b) ==
  Rendered(b.line) /\ Latching(b.dot) =>
    LET phase == (b.dot - 1) % Tile
    IN  /\ phase >= 1 => l.name = NameByte(a)
        /\ phase >= 2 => l.attribute = AttributeByte(a)
        /\ phase >= 4 => l.lo = <<NameByte(a), a.fy>>
        /\ phase >= 6 => l.hi = <<NameByte(a), a.fy>>

\* A pixel of the tile at a.
Dots(a, col) ==
  [lo |-> <<NameByte(a), a.fy>>, hi |-> <<NameByte(a), a.fy>>,
   palette |-> <<AttributeByte(a), Quadrant(a)>>, col |-> col]

\* A pixel of the strip of tiles that a line shows, from the first dot of its first tile.
TileAt(h, r, k, line) ==
  [cx |-> Along(h, k).cx, cy |-> RowAt(r, line).cy, nth |-> Along(h, k).nth,
   ntv |-> RowAt(r, line).ntv, fy |-> RowAt(r, line).fy]
Strip(h, r, n, line) == Dots(TileAt(h, r, n \div Tile, line), n % Tile)

\* Shift registers s hold the strip from the beam at b on, as far as it is loaded.
StreamKept(s, h, r, b) ==
  h # None /\ r # None /\ Rendered(b.line) =>
    /\ b.line < Lines /\ b.dot <= LastShown =>
         \A i \in 1 .. 2 * Tile : b.dot + i - 1 < Tile * OnLine(b.dot) =>
           s[i] = Strip(h, r, b.dot + i - 1, b.line)
    /\ b.dot \in Prefetch + Tile .. Prefetch + 2 * Tile - 1 =>
         LET j == b.dot - (Prefetch + Tile)
         IN  \A i \in Tile - j .. 2 * Tile - 1 - j :
               s[i] = Strip(h, r, i + j - Tile, LineAt(b))
    /\ b.dot >= Prefetch + 2 * Tile =>
         \A i \in 1 .. 2 * Tile : s[i] = Strip(h, r, i - 1, LineAt(b))

Scrolling ==
  /\ Tracks
  /\ ColumnKept(v, hor, beam) /\ RowKept(v, ver, beam)
  /\ hor # None => LatchKept(latch, v, beam)
  /\ StreamKept(shift, hor, ver, beam)
  /\ latch = [name |-> latch.name, attribute |-> latch.attribute, lo |-> latch.lo, hi |-> latch.hi]

\* What each run of writes has left in t.
One(ws, p) == Len(ws) = 1 /\ ws[1][1] = p
Two(ws, p, q) == Len(ws) = 2 /\ ws[1][1] = p /\ ws[2][1] = q
Three(ws, p, q, r) == Len(ws) = 3 /\ ws[1][1] = p /\ ws[2][1] = q /\ ws[3][1] = r

Halfway ==
  LET byte(i) == writes[i][2]
      tables == t.nth + 2 * t.ntv = (byte(1) \div (Rows \div LowRows)) % 4
      row == t.fy = byte(2) % Fine /\ t.cy = (byte(2) \div Fine) % Rows
  IN  /\ Len(writes) = 0 => ~w
      /\ One(writes, 5) => w /\ t.cx * Tile + x = byte(1) % (Columns * Tile)
      /\ One(writes, 6) => w /\ Number(t) \div LowSpan = HighBits(byte(1))
      /\ Two(writes, 6, 5) => ~w /\ tables /\ row
      /\ Three(writes, 6, 5, 5) => w /\ tables /\ row /\ x = byte(3) % Tile

\* Where the reads of $2007 have brought v, and what they have left in the buffer.
Reading ==
  run # None =>
    LET at(k) == (run.from + k * (IF down THEN Columns ELSE 1)) % Span
    IN  /\ Number(v) = at(run.reads) /\ ~Beyond(v)
        /\ run.reads > 0 => buffer = Beneath(at(run.reads - 1))

-----------------------------------------------------------------------------
(* Quotients and remainders. *)

LEMMA Division ==
  ASSUME NEW n \in Nat, NEW a \in Nat \ {0}
  PROVE  /\ n \div a \in Nat /\ n % a \in 0 .. a - 1 /\ n \div a <= n
         /\ n = a * (n \div a) + (n % a)
<1>1. n \div a \in Int /\ n % a \in 0 .. a - 1 /\ n = a * (n \div a) + (n % a)
  BY Z3
<1> DEFINE q == n \div a
           r == n % a
<1>2. q \in Int /\ r \in 0 .. a - 1 /\ n = a * q + r
  BY <1>1
<1> HIDE DEF q, r
<1>3. q >= 0
  <2>1. SUFFICES ASSUME q <= -1 PROVE FALSE
    BY <1>2
  <2>2. a * q <= -a
    BY <1>2, <2>1, Z3
  <2>. QED
    BY <1>2, <2>2
<1>4. q <= a * q
  BY <1>2, <1>3, Z3
<1>. QED
  BY <1>2, <1>3, <1>4 DEF q, r

LEMMA DivisionUnique ==
  ASSUME NEW a \in Nat \ {0}, NEW q \in Nat, NEW r \in 0 .. a - 1
  PROVE  (a * q + r) \div a = q /\ (a * q + r) % a = r
<1> DEFINE n == a * q + r
           p == n \div a
           s == n % a
<1>1. a * q \in Nat
  BY Z3
<1>2. n \in Nat
  BY <1>1
<1>3. p \in Nat /\ s \in 0 .. a - 1 /\ a * q + r = a * p + s
  BY <1>2, Division
<1> HIDE DEF p, s
<1>4. p = q
  <2>1. SUFFICES ASSUME p # q PROVE FALSE
    OBVIOUS
  <2>2. CASE p >= q + 1
    <3>1. a * p >= a * (q + 1) /\ a * (q + 1) = a * q + a
      BY <1>3, <2>2, Z3
    <3>. QED
      BY <1>1, <1>3, <3>1
  <2>3. CASE q >= p + 1
    <3>1. a * q >= a * (p + 1) /\ a * (p + 1) = a * p + a /\ a * p \in Nat
      BY <1>3, <2>3, Z3
    <3>. QED
      BY <1>1, <1>3, <3>1
  <2>. QED
    BY <1>3, <2>1, <2>2, <2>3
<1>5. s = r
  BY <1>1, <1>3, <1>4
<1>. QED
  BY <1>4, <1>5 DEF p, s

\* Reducing twice is reducing once.
LEMMA ModSum ==
  ASSUME NEW a \in Nat \ {0}, NEW n \in Nat, NEW k \in Nat
  PROVE  ((n % a) + k) % a = (n + k) % a
<1> DEFINE q == n \div a
           r == n % a
           p == (r + k) \div a
           s == (r + k) % a
<1>1. q \in Nat /\ r \in 0 .. a - 1 /\ n = a * q + r
  BY Division
<1> HIDE DEF q, r
<1>2. p \in Nat /\ s \in 0 .. a - 1 /\ r + k = a * p + s
  <2>1. r + k \in Nat
    BY <1>1
  <2>. QED
    BY <2>1, Division
<1> HIDE DEF p, s
<1>3. a * (q + p) = a * q + a * p /\ a * q \in Nat /\ a * p \in Nat
  BY <1>1, <1>2, Z3
<1>4. n + k = a * (q + p) + s
  BY <1>1, <1>2, <1>3
<1>5. (n + k) % a = s
  <2>1. q + p \in Nat
    BY <1>1, <1>2
  <2>. QED
    BY <1>2, <1>4, <2>1, DivisionUnique
<1>. QED
  BY <1>5 DEF r, s

\* Division by a product is division by one factor and then by the other.
LEMMA DivisionByProduct ==
  ASSUME NEW a \in Nat \ {0}, NEW b \in Nat \ {0}, NEW n \in Nat
  PROVE  /\ a * b \in Nat \ {0}
         /\ n \div (a * b) = (n \div a) \div b
         /\ n % (a * b) = a * ((n \div a) % b) + (n % a)
<1> DEFINE q == n \div a
           r == n % a
           p == q \div b
           s == q % b
<1>1. q \in Nat /\ r \in 0 .. a - 1 /\ n = a * q + r
  BY Division
<1> HIDE DEF q, r
<1>2. p \in Nat /\ s \in 0 .. b - 1 /\ q = b * p + s
  BY <1>1, Division
<1> HIDE DEF p, s
<1>3. a * b \in Nat \ {0} /\ b * p \in Nat /\ a * s \in Nat
  BY <1>2, Z3
<1>4. a * q = a * (b * p) + a * s
  BY <1>2, <1>3, Z3
<1>5. a * (b * p) = (a * b) * p
  BY <1>2, Z3
<1>6. a * s + r \in 0 .. a * b - 1
  <2>1. a * (s + 1) <= a * b /\ a * (s + 1) = a * s + a
    BY <1>2, Z3
  <2>. QED
    BY <1>1, <1>3, <2>1
<1>7. n = (a * b) * p + (a * s + r)
  <2>1. (a * b) * p \in Int
    BY <1>2, <1>3, Z3
  <2>. QED
    BY <1>1, <1>3, <1>4, <1>5, <2>1
<1> DEFINE c == a * b
           m == a * s + r
<1>8. c \in Nat \ {0} /\ m \in 0 .. c - 1 /\ n = c * p + m
  BY <1>3, <1>6, <1>7
<1> HIDE DEF c, m
<1>9. n \div c = p /\ n % c = m
  BY <1>2, <1>8, DivisionUnique
<1>. QED
  BY <1>3, <1>9 DEF p, s, q, r, c, m

-----------------------------------------------------------------------------
(* Addresses and their numbers. *)

Half == Fine \div 2
Tables == 4 * Half                   \* values of the fields above coarse y
HighRows == Rows \div LowRows

LEMMA Sizes ==
  /\ Columns \in Nat \ {0} /\ Rows \in Nat \ {0} /\ LowRows \in Nat \ {0} /\ HighRows \in Nat \ {0}
  /\ Half \in {1, 2, 4} /\ Fine = 2 * Half /\ Tables = 4 * Half /\ Tables \in Nat \ {0}
  /\ Rows = LowRows * HighRows
  /\ Columns * Rows \in Nat \ {0} /\ Span = (Columns * Rows) * Tables /\ Span \in Nat \ {0}
  /\ LowSpan \in Nat \ {0} /\ Span = LowSpan * (HighRows * Tables)
  /\ HighRows * Tables \in Nat \ {0} /\ Span \div LowSpan = HighRows * Tables
<1>1. /\ Columns \in Nat \ {0} /\ Rows \in Nat \ {0} /\ LowRows \in Nat \ {0}
      /\ Fine \in {2, 4, 8} /\ Rows % LowRows = 0
  BY ScrollAssumption DEF ScrollAssumption
<1>2. Half \in {1, 2, 4} /\ Fine = 2 * Half /\ Tables = 4 * Half /\ Tables \in Nat \ {0}
  BY <1>1 DEF Half, Tables
<1>3. HighRows \in Nat /\ Rows = LowRows * HighRows
  <2>1. Rows \div LowRows \in Nat /\ Rows = LowRows * (Rows \div LowRows) + (Rows % LowRows)
    BY <1>1, Division
  <2> DEFINE k == Rows \div LowRows
  <2>2. LowRows * k \in Int
    BY <1>1, <2>1, Z3
  <2>. QED
    BY <1>1, <2>1, <2>2 DEF HighRows
<1>4. HighRows # 0
  <2>1. LowRows * 0 = 0
    BY <1>1, Z3
  <2>. QED
    BY <1>1, <1>3, <2>1
<1>5. Columns * Rows \in Nat \ {0} /\ LowSpan \in Nat \ {0} /\ HighRows * Tables \in Nat \ {0}
  BY <1>1, <1>2, <1>3, <1>4, Z3 DEF LowSpan
<1>6. Columns * Rows = LowSpan * HighRows
  BY <1>1, <1>3, Z3 DEF LowSpan
<1>7. Span = (Columns * Rows) * Tables
  <2>1. Span = ((Columns * Rows) * 4) * Half
    BY DEF Span, Half
  <2> DEFINE n == Columns * Rows
  <2>2. (n * 4) * Half = n * (4 * Half)
    BY <1>2, <1>5, Z3
  <2>. QED
    BY <2>1, <2>2 DEF Tables
<1>8. Span = LowSpan * (HighRows * Tables)
  BY <1>2, <1>3, <1>5, <1>6, <1>7, Z3
<1>9. Span \in Nat \ {0}
  BY <1>2, <1>5, <1>7, Z3
<1>10. Span \div LowSpan = HighRows * Tables
  <2> DEFINE a == LowSpan
             q == HighRows * Tables
  <2>1. (a * q + 0) \div a = q
    BY <1>5, DivisionUnique
  <2>2. a * q + 0 = a * q
    BY <1>8, <1>9
  <2>. QED
    BY <1>8, <2>1, <2>2
<1>. QED
  BY <1>1, <1>2, <1>3, <1>4, <1>5, <1>7, <1>8, <1>9, <1>10

\* The fields of an address above coarse y, as one number.
Upper(a) == a.nth + 2 * (a.ntv + 2 * (a.fy % Half))

LEMMA AddressType ==
  ASSUME NEW a \in Address
  PROVE  /\ a.cx \in 0 .. Columns - 1 /\ a.cy \in 0 .. Rows - 1
         /\ a.nth \in 0 .. 1 /\ a.ntv \in 0 .. 1 /\ a.fy \in 0 .. Fine - 1
         /\ Upper(a) \in 0 .. Tables - 1
         /\ (Upper(a) % 4) = a.nth + 2 * a.ntv
         /\ Number(a) = a.cx + Columns * (a.cy + Rows * Upper(a))
<1>1. /\ a.cx \in 0 .. Columns - 1 /\ a.cy \in 0 .. Rows - 1
      /\ a.nth \in 0 .. 1 /\ a.ntv \in 0 .. 1 /\ a.fy \in 0 .. Fine - 1
  BY DEF Address
<1>2. Half \in {1, 2, 4} /\ Fine = 2 * Half /\ Tables = 4 * Half
  BY Sizes
<1>3. a.fy % Half \in 0 .. Half - 1
  BY <1>1, <1>2
<1> DEFINE f == a.fy % Half
<1>4. Upper(a) = a.nth + 2 * (a.ntv + 2 * f)
  BY DEF Upper
<1> HIDE DEF f
<1>5. Upper(a) \in 0 .. Tables - 1 /\ (Upper(a) % 4) = a.nth + 2 * a.ntv
  BY <1>1, <1>2, <1>3, <1>4 DEF f
<1>6. Number(a) = a.cx + Columns * (a.cy + Rows * Upper(a))
  BY DEF Number, Upper, Half
<1>. QED
  BY <1>1, <1>5, <1>6

LEMMA NumberOf ==
  ASSUME NEW a \in Address
  PROVE  /\ Number(a) \in 0 .. Span - 1
         /\ Number(a) % Columns = a.cx /\ Number(a) \div Columns = Rows * Upper(a) + a.cy
         /\ (Number(a) \div Columns) % Rows = a.cy
         /\ Number(a) \div (Columns * Rows) = Upper(a)
<1> DEFINE u == Upper(a)
           m == Rows * u + a.cy
<1>1. /\ a.cx \in 0 .. Columns - 1 /\ a.cy \in 0 .. Rows - 1 /\ u \in 0 .. Tables - 1
      /\ Number(a) = a.cx + Columns * (a.cy + Rows * u)
  BY AddressType
<1>2. Columns \in Nat \ {0} /\ Rows \in Nat \ {0} /\ Tables \in Nat \ {0}
  BY Sizes
<1> HIDE DEF u
<1>3. Rows * u \in Nat
  BY <1>1, <1>2, Z3
<1>4. m \in Nat /\ m \div Rows = u /\ m % Rows = a.cy
  <2>1. u \in Nat
    BY <1>1, <1>2
  <2>2. (Rows * u + a.cy) \div Rows = u /\ (Rows * u + a.cy) % Rows = a.cy
    BY <1>1, <1>2, <2>1, DivisionUnique
  <2>. QED
    BY <1>1, <1>2, <1>3, <2>2
<1>5. m < Rows * Tables
  <2>1. Rows * (u + 1) <= Rows * Tables /\ Rows * (u + 1) = Rows * u + Rows /\ Rows * Tables \in Nat
    BY <1>1, <1>2, Z3
  <2>. QED
    BY <1>1, <1>2, <1>3, <2>1
<1>6. Number(a) = Columns * m + a.cx
  <2>1. a.cy + Rows * u = m
    BY <1>1, <1>2, <1>3
  <2> HIDE DEF m
  <2>2. Columns * m \in Int
    BY <1>2, <1>4, Z3
  <2>. QED
    BY <1>1, <1>2, <2>1, <2>2
<1> HIDE DEF m
<1>7. Number(a) \div Columns = m /\ Number(a) % Columns = a.cx
  <2>1. (Columns * m + a.cx) \div Columns = m /\ (Columns * m + a.cx) % Columns = a.cx
    BY <1>1, <1>2, <1>4, DivisionUnique
  <2>. QED
    BY <1>6, <2>1
<1>8. Columns * m \in Nat
  BY <1>2, <1>4, Z3
<1>9. Number(a) \in 0 .. Span - 1
  <2>1. Columns * (m + 1) <= Columns * (Rows * Tables) /\ Columns * (m + 1) = Columns * m + Columns
    <3> DEFINE e == Rows * Tables
    <3>1. e \in Nat /\ m + 1 <= e
      BY <1>2, <1>4, <1>5, Z3
    <3> HIDE DEF e
    <3>2. Columns * (m + 1) <= Columns * e /\ Columns * (m + 1) = Columns * m + Columns
      BY <1>2, <1>4, <3>1, Z3
    <3>. QED
      BY <3>2 DEF e
  <2>2. Columns * (Rows * Tables) = Span
    <3>1. Columns * (Rows * Tables) = (Columns * Rows) * Tables
      BY <1>2, Z3
    <3>. QED
      BY <3>1, Sizes
  <2>. QED
    BY <1>1, <1>2, <1>6, <1>8, <2>1, <2>2, Sizes
<1>10. Number(a) \div (Columns * Rows) = m \div Rows
  BY <1>2, <1>7, <1>9, DivisionByProduct
<1>. QED
  BY <1>4, <1>7, <1>9, <1>10 DEF m, u

LEMMA FieldsOf ==
  ASSUME NEW n \in 0 .. Span - 1
  PROVE  Fields(n) \in Address /\ Number(Fields(n)) = n /\ ~Beyond(Fields(n))
<1> DEFINE c == n % Columns
           m == n \div Columns
           y == m % Rows
           u == m \div Rows
           a == Fields(n)
<1>1. Columns \in Nat \ {0} /\ Rows \in Nat \ {0} /\ Half \in {1, 2, 4} /\ Tables = 4 * Half /\ Fine = 2 * Half
  BY Sizes
<1>2. n \in Nat
  BY Sizes
<1>3. m \in Nat /\ c \in 0 .. Columns - 1 /\ n = Columns * m + c
  BY <1>1, <1>2, Division
<1>4. n \div (Columns * Rows) = u
  BY <1>1, <1>2, DivisionByProduct
<1> HIDE DEF c, m
<1>5. u \in Nat /\ y \in 0 .. Rows - 1 /\ m = Rows * u + y
  BY <1>1, <1>3, Division
<1>6. u < Tables
  <2> DEFINE s == Columns * Rows
             q == n \div s
  <2>1. s \in Nat \ {0} /\ Span = s * Tables /\ Tables \in Nat \ {0}
    BY Sizes
  <2>2. q \in Nat /\ n % s \in 0 .. s - 1 /\ n = s * q + (n % s)
    BY <1>2, <2>1, Division
  <2>3. q = u
    BY <1>4
  <2>4. s * Tables \in Nat /\ n < s * Tables
    BY <1>2, <2>1, Z3
  <2> HIDE DEF s, q
  <2>5. SUFFICES ASSUME q >= Tables PROVE FALSE
    BY <1>5, <2>1, <2>3
  <2>6. s * q >= s * Tables
    BY <2>1, <2>2, <2>5, Z3
  <2>. QED
    BY <1>2, <2>1, <2>2, <2>4, <2>6
<1> HIDE DEF y, u
<1>7. a = [cx |-> c, cy |-> y, nth |-> u % 2, ntv |-> (u \div 2) % 2, fy |-> u \div 4]
  BY <1>4 DEF Fields, c, m, y, u
<1>8. u % 2 \in 0 .. 1 /\ (u \div 2) % 2 \in 0 .. 1 /\ u \div 4 \in 0 .. Half - 1
  BY <1>1, <1>5, <1>6
<1>9. (u \div 4) % Half = u \div 4
  BY <1>1, <1>8
<1>10. a \in Address /\ a.fy < Half
  <2>1. u \div 4 \in 0 .. Fine - 1 /\ u \div 4 < Half
    BY <1>1, <1>8
  <2>. QED
    BY <1>3, <1>5, <1>7, <1>8, <2>1 DEF Address
<1>11. Upper(a) = u
  <2>1. Upper(a) = (u % 2) + 2 * (((u \div 2) % 2) + 2 * (u \div 4))
    BY <1>7, <1>9 DEF Upper
  <2>. QED
    BY <1>5, <2>1
<1>12. Number(a) = c + Columns * (y + Rows * u)
  <2>1. Number(a) = a.cx + Columns * (a.cy + Rows * Upper(a))
    BY <1>10, AddressType
  <2>. QED
    BY <1>7, <1>11, <2>1
<1>13. y + Rows * u = m
  <2>1. Rows * u \in Int
    BY <1>1, <1>5, Z3
  <2>. QED
    BY <1>5, <2>1
<1>14. c + Columns * m = n
  <2>1. Columns * m \in Int
    BY <1>1, <1>3, Z3
  <2>. QED
    BY <1>3, <2>1
<1>15. ~Beyond(a)
  BY <1>1, <1>10 DEF Beyond, Half, Address
<1>. QED
  BY <1>10, <1>12, <1>13, <1>14, <1>15

\* The second byte of an address, and what is above it.
LEMMA LowOf ==
  ASSUME NEW a \in Address
  PROVE  /\ Number(a) % LowSpan = a.cx + Columns * (a.cy % LowRows)
         /\ Number(a) \div LowSpan = (a.cy \div LowRows) + HighRows * Upper(a)
         /\ a.cy \div LowRows \in 0 .. HighRows - 1
         /\ a.cy = LowRows * (a.cy \div LowRows) + (a.cy % LowRows) /\ a.cy % LowRows \in 0 .. LowRows - 1
<1> DEFINE n == Number(a)
           u == Upper(a)
           p == a.cy \div LowRows
           s == a.cy % LowRows
           m == n \div Columns
<1>1. /\ Columns \in Nat \ {0} /\ LowRows \in Nat \ {0} /\ HighRows \in Nat \ {0}
      /\ Rows \in Nat \ {0} /\ Rows = LowRows * HighRows /\ Span \in Nat
  BY Sizes
<1>2. u \in Nat /\ a.cy \in Nat /\ a.cy < Rows /\ a.cx \in 0 .. Columns - 1
  BY <1>1, AddressType, Sizes
<1>3. n \in Nat /\ n % Columns = a.cx /\ m = Rows * u + a.cy
  BY <1>1, NumberOf
<1>4. p \in Nat /\ s \in 0 .. LowRows - 1 /\ a.cy = LowRows * p + s
  BY <1>1, <1>2, Division
<1> HIDE DEF n, u, p, s
<1>5. n \div LowSpan = m \div LowRows /\ n % LowSpan = Columns * (m % LowRows) + a.cx
  <2>1. /\ n \div (Columns * LowRows) = (n \div Columns) \div LowRows
        /\ (n % (Columns * LowRows)) = Columns * ((n \div Columns) % LowRows) + (n % Columns)
    <3>1. Columns \in Nat \ {0} /\ LowRows \in Nat \ {0} /\ n \in Nat
      BY <1>1, <1>3
    <3>. QED
      BY ONLY <3>1, DivisionByProduct, Zenon
  <2>. QED
    BY <1>3, <2>1 DEF LowSpan
<1> HIDE DEF m
<1>6. m = LowRows * (HighRows * u + p) + s
  <2>1. Rows * u = LowRows * (HighRows * u) /\ HighRows * u \in Nat
    BY <1>1, <1>2, Z3
  <2>2. LowRows * (HighRows * u + p) = LowRows * (HighRows * u) + LowRows * p
    BY <1>1, <1>2, <1>4, <2>1, Z3
  <2>3. LowRows * (HighRows * u) \in Int /\ LowRows * p \in Int
    BY <1>1, <1>2, <1>4, <2>1, Z3
  <2>. QED
    BY <1>3, <1>4, <2>1, <2>2, <2>3
<1>7. m \div LowRows = HighRows * u + p /\ m % LowRows = s
  <2> DEFINE q == HighRows * u + p
  <2>1. q \in Nat
    BY <1>1, <1>2, <1>4, Z3
  <2> HIDE DEF q
  <2>2. (LowRows * q + s) \div LowRows = q /\ (LowRows * q + s) % LowRows = s
    BY <1>1, <1>4, <2>1, DivisionUnique
  <2>. QED
    BY <1>6, <2>2 DEF q
<1>8. p < HighRows
  <2>1. SUFFICES ASSUME p >= HighRows PROVE FALSE
    BY <1>1, <1>4
  <2>2. LowRows * p >= LowRows * HighRows /\ LowRows * p \in Int
    BY <1>1, <1>4, <2>1, Z3
  <2>. QED
    BY <1>1, <1>2, <1>4, <2>2
<1>9. Columns * s \in Int /\ HighRows * u \in Int
  BY <1>1, <1>2, <1>4, Z3
<1>10. n % LowSpan = a.cx + Columns * s
  BY <1>2, <1>5, <1>7, <1>9
<1>11. n \div LowSpan = p + HighRows * u
  BY <1>4, <1>5, <1>7, <1>9
<1>12. p \in 0 .. HighRows - 1
  BY <1>1, <1>4, <1>8
<1>. QED
  BY <1>4, <1>10, <1>11, <1>12 DEF n, u, p, s

LEMMA HighBitsType ==
  ASSUME NEW byte \in Nat
  PROVE  /\ HighBits(byte) \in 0 .. (HighRows * Tables) - 1
         /\ (HighBits(byte) \div HighRows) % 4 = (byte \div HighRows) % 4
<1> DEFINE q == byte \div HighRows
           r == byte % HighRows
<1>1. /\ HighRows \in Nat \ {0} /\ Tables \in Nat \ {0} /\ Half \in {1, 2, 4} /\ Tables = 4 * Half
      /\ HighRows * Tables \in Nat \ {0} /\ HighBits(byte) = byte % (HighRows * Tables)
  BY Sizes DEF HighBits
<1>2. q \in Nat /\ r \in 0 .. HighRows - 1
  BY <1>1, Division
<1>3. byte % (HighRows * Tables) = HighRows * (q % Tables) + r
  BY <1>1, DivisionByProduct
<1> HIDE DEF q, r
<1>4. q % Tables \in Nat /\ (q % Tables) % 4 = q % 4
  BY <1>1, <1>2
<1>5. (HighRows * (q % Tables) + r) \div HighRows = q % Tables
  <2> DEFINE m == q % Tables
  <2>1. m \in Nat
    BY <1>4
  <2> HIDE DEF m
  <2>2. (HighRows * m + r) \div HighRows = m
    BY <1>1, <1>2, <2>1, DivisionUnique
  <2>. QED
    BY <2>2 DEF m
<1>6. byte % (HighRows * Tables) \in 0 .. (HighRows * Tables) - 1
  BY <1>1, Division
<1>. QED
  BY <1>1, <1>3, <1>4, <1>5, <1>6 DEF q

\* The first byte of an address.
LEMMA FirstByte ==
  ASSUME NEW a \in Address, NEW byte \in Nat
  PROVE  LET n == HighBits(byte) * LowSpan + (Number(a) % LowSpan)
         IN  n \in 0 .. Span - 1 /\ n \div LowSpan = HighBits(byte)
<1> DEFINE h == HighBits(byte)
           r == Number(a) % LowSpan
           k == HighRows * Tables
<1>1. LowSpan \in Nat \ {0} /\ k \in Nat \ {0} /\ Span = LowSpan * k /\ Span \in Nat
  BY Sizes
<1>2. h \in 0 .. k - 1
  BY HighBitsType
<1>3. r \in 0 .. LowSpan - 1
  <2>1. Number(a) \in Nat
    BY <1>1, NumberOf
  <2>. QED
    BY <1>1, <2>1, Division
<1> HIDE DEF h, r, k
<1>4. h * LowSpan = LowSpan * h /\ LowSpan * h \in Nat
  BY <1>1, <1>2, Z3
<1>5. LowSpan * (h + 1) <= LowSpan * k /\ LowSpan * (h + 1) = LowSpan * h + LowSpan
  BY <1>1, <1>2, Z3
<1>6. (LowSpan * h + r) \div LowSpan = h
  BY <1>1, <1>2, <1>3, DivisionUnique
<1>7. h * LowSpan + r \in 0 .. Span - 1
  BY <1>1, <1>3, <1>4, <1>5
<1>. QED
  BY <1>4, <1>6, <1>7 DEF h, r

\* The second byte of an address.
Lowered(a, byte) ==
  [cx |-> byte % Columns, cy |-> LowRows * (a.cy \div LowRows) + ((byte \div Columns) % LowRows),
   nth |-> a.nth, ntv |-> a.ntv, fy |-> a.fy]

LEMMA SecondByte ==
  ASSUME NEW a \in Address, NEW byte \in 0 .. LowSpan - 1
  PROVE  LET b == Lowered(a, byte)
         IN  /\ b \in Address
             /\ Number(b) = LowSpan * (Number(a) \div LowSpan) + byte
             /\ b.cx + Columns * (b.cy % LowRows) = byte
             /\ b.cy \div LowRows = a.cy \div LowRows
             /\ b.nth = a.nth /\ b.ntv = a.ntv /\ b.fy = a.fy
<1> DEFINE b == Lowered(a, byte)
           p == a.cy \div LowRows
           c == byte % Columns
           y == (byte \div Columns) % LowRows
<1>1. /\ Columns \in Nat \ {0} /\ LowRows \in Nat \ {0} /\ HighRows \in Nat \ {0}
      /\ Rows = LowRows * HighRows /\ Rows \in Nat /\ LowSpan \in Nat \ {0} /\ Span \in Nat
  BY Sizes
<1>2. byte \in Nat
  BY <1>1
<1>3. p \in 0 .. HighRows - 1
  BY LowOf
<1>4. byte \div Columns \in Nat /\ c \in 0 .. Columns - 1
  BY <1>1, <1>2, Division
<1>5. y \in 0 .. LowRows - 1
  BY <1>1, <1>4, Division
<1>6. byte % LowSpan = Columns * y + c
  <2>1. byte % (Columns * LowRows) = Columns * ((byte \div Columns) % LowRows) + (byte % Columns)
    BY <1>1, <1>2, DivisionByProduct
  <2>. QED
    BY <2>1 DEF LowSpan
<1>7. byte % LowSpan = byte
  <2>1. LowSpan * 0 + byte = byte
    BY <1>1, <1>2, Z3
  <2>2. (LowSpan * 0 + byte) % LowSpan = byte
    BY <1>1, <1>2, DivisionUnique
  <2>. QED
    BY <2>1, <2>2
<1>8. b = [cx |-> c, cy |-> LowRows * p + y, nth |-> a.nth, ntv |-> a.ntv, fy |-> a.fy]
  BY DEF Lowered
<1> HIDE DEF p, c, y
<1>9. LowRows * p + y \in 0 .. Rows - 1
  <2>1. LowRows * (p + 1) <= LowRows * HighRows /\ LowRows * (p + 1) = LowRows * p + LowRows
        /\ LowRows * p \in Nat
    BY <1>1, <1>3, Z3
  <2>. QED
    BY <1>1, <1>5, <2>1
<1>10. b \in Address
  <2>1. a.nth \in 0 .. 1 /\ a.ntv \in 0 .. 1 /\ a.fy \in 0 .. Fine - 1
    BY AddressType
  <2>. QED
    BY <1>4, <1>8, <1>9, <2>1 DEF Address
<1>11. (LowRows * p + y) \div LowRows = p /\ (LowRows * p + y) % LowRows = y
  BY <1>1, <1>3, <1>5, DivisionUnique
<1>12. b.cx = c /\ b.cy % LowRows = y /\ b.cy \div LowRows = p
       /\ b.nth = a.nth /\ b.ntv = a.ntv /\ b.fy = a.fy
  BY <1>8, <1>11
<1>13. Upper(b) = Upper(a)
  BY <1>12 DEF Upper
<1> HIDE DEF b
<1>14. c + Columns * y = byte
  <2>1. Columns * y \in Int
    BY <1>1, <1>5, Z3
  <2>. QED
    BY <1>4, <1>6, <1>7, <2>1
<1>15. Number(b) % LowSpan = byte
  BY <1>10, <1>12, <1>14, LowOf
<1>16. Number(b) \div LowSpan = Number(a) \div LowSpan
  BY <1>10, <1>12, <1>13, LowOf DEF p
<1>17. Number(b) = LowSpan * (Number(b) \div LowSpan) + (Number(b) % LowSpan)
  <2>1. Number(b) \in Nat
    BY <1>1, <1>10, NumberOf
  <2>. QED
    BY <1>1, <2>1, Division
<1>18. Number(b) = LowSpan * (Number(a) \div LowSpan) + byte
  BY <1>15, <1>16, <1>17
<1>. QED
  BY <1>10, <1>12, <1>14, <1>18 DEF b, p

LEMMA BothBytes ==
  ASSUME NEW high \in Nat, NEW low \in 0 .. LowSpan - 1
  PROVE  LowSpan * HighBits(high) + low = (high * LowSpan + low) % Span
<1> DEFINE n == high * LowSpan + low
           k == HighRows * Tables
<1>1. LowSpan \in Nat \ {0} /\ k \in Nat \ {0} /\ Span = LowSpan * k /\ HighBits(high) = high % k
  BY Sizes DEF HighBits
<1>2. high * LowSpan = LowSpan * high /\ LowSpan * high \in Nat
  BY <1>1, Z3
<1>3. n \in Nat /\ n = LowSpan * high + low
  BY <1>1, <1>2
<1>4. (LowSpan * high + low) \div LowSpan = high /\ (LowSpan * high + low) % LowSpan = low
  BY <1>1, DivisionUnique
<1> HIDE DEF n, k
<1>5. n % (LowSpan * k) = LowSpan * ((n \div LowSpan) % k) + (n % LowSpan)
  BY <1>1, <1>3, DivisionByProduct
<1>. QED
  BY <1>1, <1>3, <1>4, <1>5 DEF n

LEMMA AdvancedOf ==
  ASSUME NEW a \in Address
  PROVE  /\ Advanced(a) \in Address /\ ~Beyond(Advanced(a))
         /\ Number(Advanced(a)) = (Number(a) + (IF down THEN Columns ELSE 1)) % Span
<1> DEFINE n == (Number(a) + (IF down THEN Columns ELSE 1)) % Span
<1>1. Number(a) + (IF down THEN Columns ELSE 1) \in Nat /\ Span \in Nat \ {0}
  BY NumberOf, Sizes
<1>2. n \in 0 .. Span - 1
  BY <1>1, Division
<1>3. Advanced(a) = Fields(n)
  BY DEF Advanced
<1> HIDE DEF n
<1>4. Fields(n) \in Address /\ Number(Fields(n)) = n /\ ~Beyond(Fields(n))
  BY <1>2, FieldsOf
<1>. QED
  BY <1>3, <1>4 DEF n

\* The steps of an address, field by field.
LEMMA ColumnSet ==
  ASSUME NEW a \in Address, NEW c, NEW n
  PROVE  [a EXCEPT !.cx = c, !.nth = n]
           = [cx |-> c, cy |-> a.cy, nth |-> n, ntv |-> a.ntv, fy |-> a.fy]
<1>1. [a EXCEPT !.cx = c, !.nth = n] = [[a EXCEPT !.cx = c] EXCEPT !.nth = n]
  OBVIOUS
<1>2. [a EXCEPT !.cx = c]
        = [cx |-> c, cy |-> a.cy, nth |-> a.nth, ntv |-> a.ntv, fy |-> a.fy]
  BY DEF Address
<1>3. [[cx |-> c, cy |-> a.cy, nth |-> a.nth, ntv |-> a.ntv, fy |-> a.fy] EXCEPT !.nth = n]
        = [cx |-> c, cy |-> a.cy, nth |-> n, ntv |-> a.ntv, fy |-> a.fy]
  OBVIOUS
<1>. QED
  BY <1>1, <1>2, <1>3, Zenon

LEMMA RowSet ==
  ASSUME NEW a \in Address, NEW y, NEW f
  PROVE  [a EXCEPT !.fy = f, !.cy = y]
           = [cx |-> a.cx, cy |-> y, nth |-> a.nth, ntv |-> a.ntv, fy |-> f]
<1>1. [a EXCEPT !.fy = f, !.cy = y] = [[a EXCEPT !.fy = f] EXCEPT !.cy = y]
  OBVIOUS
<1>2. [a EXCEPT !.fy = f]
        = [cx |-> a.cx, cy |-> a.cy, nth |-> a.nth, ntv |-> a.ntv, fy |-> f]
  BY DEF Address
<1>3. [[cx |-> a.cx, cy |-> a.cy, nth |-> a.nth, ntv |-> a.ntv, fy |-> f] EXCEPT !.cy = y]
        = [cx |-> a.cx, cy |-> y, nth |-> a.nth, ntv |-> a.ntv, fy |-> f]
  OBVIOUS
<1>. QED
  BY <1>1, <1>2, <1>3, Zenon

LEMMA ColumnStep ==
  ASSUME NEW a \in Address
  PROVE  NextColumn(a) =
           IF a.cx = Columns - 1
           THEN [cx |-> 0, cy |-> a.cy, nth |-> 1 - a.nth, ntv |-> a.ntv, fy |-> a.fy]
           ELSE [cx |-> a.cx + 1, cy |-> a.cy, nth |-> a.nth, ntv |-> a.ntv, fy |-> a.fy]
<1>1. [a EXCEPT !.cx = 0, !.nth = 1 - @]
        = [cx |-> 0, cy |-> a.cy, nth |-> 1 - a.nth, ntv |-> a.ntv, fy |-> a.fy]
  BY ColumnSet, Zenon
<1>2. [a EXCEPT !.cx = @ + 1]
        = [cx |-> a.cx + 1, cy |-> a.cy, nth |-> a.nth, ntv |-> a.ntv, fy |-> a.fy]
  BY DEF Address
<1>. QED
  BY <1>1, <1>2, Zenon DEF NextColumn

LEMMA LineStep ==
  ASSUME NEW a \in Address
  PROVE  NextLine(a) =
           IF a.fy < Fine - 1
           THEN [cx |-> a.cx, cy |-> a.cy, nth |-> a.nth, ntv |-> a.ntv, fy |-> a.fy + 1]
           ELSE IF a.cy = LastRow
           THEN [cx |-> a.cx, cy |-> 0, nth |-> a.nth, ntv |-> 1 - a.ntv, fy |-> 0]
           ELSE IF a.cy = Rows - 1
           THEN [cx |-> a.cx, cy |-> 0, nth |-> a.nth, ntv |-> a.ntv, fy |-> 0]
           ELSE [cx |-> a.cx, cy |-> a.cy + 1, nth |-> a.nth, ntv |-> a.ntv, fy |-> 0]
<1>1. [a EXCEPT !.fy = @ + 1]
        = [cx |-> a.cx, cy |-> a.cy, nth |-> a.nth, ntv |-> a.ntv, fy |-> a.fy + 1]
  BY DEF Address
<1>2. [a EXCEPT !.fy = 0, !.cy = 0, !.ntv = 1 - @]
        = [cx |-> a.cx, cy |-> 0, nth |-> a.nth, ntv |-> 1 - a.ntv, fy |-> 0]
  <2>1. [a EXCEPT !.fy = 0, !.cy = 0, !.ntv = 1 - @]
          = [[a EXCEPT !.fy = 0, !.cy = 0] EXCEPT !.ntv = 1 - a.ntv]
    OBVIOUS
  <2>2. [a EXCEPT !.fy = 0, !.cy = 0]
          = [cx |-> a.cx, cy |-> 0, nth |-> a.nth, ntv |-> a.ntv, fy |-> 0]
    BY RowSet, Zenon
  <2>3. PICK m : m = 1 - a.ntv
    OBVIOUS
  <2>4. [[cx |-> a.cx, cy |-> 0, nth |-> a.nth, ntv |-> a.ntv, fy |-> 0] EXCEPT !.ntv = m]
          = [cx |-> a.cx, cy |-> 0, nth |-> a.nth, ntv |-> m, fy |-> 0]
    OBVIOUS
  <2>. QED
    BY <2>1, <2>2, <2>3, <2>4, Zenon
<1>3. [a EXCEPT !.fy = 0, !.cy = 0]
        = [cx |-> a.cx, cy |-> 0, nth |-> a.nth, ntv |-> a.ntv, fy |-> 0]
  BY RowSet, Zenon
<1>4. [a EXCEPT !.fy = 0, !.cy = @ + 1]
        = [cx |-> a.cx, cy |-> a.cy + 1, nth |-> a.nth, ntv |-> a.ntv, fy |-> 0]
  BY RowSet, Zenon
<1>. QED
  BY <1>1, <1>2, <1>3, <1>4, Zenon DEF NextLine

LEMMA CopyStep ==
  ASSUME NEW a \in Address, NEW b \in Address
  PROVE  /\ WithHorizontal(a, b)
              = [cx |-> b.cx, cy |-> a.cy, nth |-> b.nth, ntv |-> a.ntv, fy |-> a.fy]
         /\ WithVertical(a, b)
              = [cx |-> a.cx, cy |-> b.cy, nth |-> a.nth, ntv |-> b.ntv, fy |-> b.fy]
         /\ WithHorizontal(a, b) \in Address /\ WithVertical(a, b) \in Address
<1>1. WithHorizontal(a, b)
        = [cx |-> b.cx, cy |-> a.cy, nth |-> b.nth, ntv |-> a.ntv, fy |-> a.fy]
  <2>1. WithHorizontal(a, b) = [[a EXCEPT !.cx = b.cx] EXCEPT !.nth = b.nth]
    BY DEF WithHorizontal
  <2>. QED
    BY <2>1 DEF Address
<1>2. WithVertical(a, b)
        = [cx |-> a.cx, cy |-> b.cy, nth |-> a.nth, ntv |-> b.ntv, fy |-> b.fy]
  <2>1. WithVertical(a, b) = [[[a EXCEPT !.cy = b.cy] EXCEPT !.ntv = b.ntv] EXCEPT !.fy = b.fy]
    BY DEF WithVertical
  <2>. QED
    BY <2>1 DEF Address
<1>3. /\ a.cx \in 0 .. Columns - 1 /\ a.cy \in 0 .. Rows - 1
      /\ a.nth \in 0 .. 1 /\ a.ntv \in 0 .. 1 /\ a.fy \in 0 .. Fine - 1
  BY AddressType
<1>4. /\ b.cx \in 0 .. Columns - 1 /\ b.cy \in 0 .. Rows - 1
      /\ b.nth \in 0 .. 1 /\ b.ntv \in 0 .. 1 /\ b.fy \in 0 .. Fine - 1
  BY AddressType
<1>5. WithHorizontal(a, b) \in Address
  BY <1>1, <1>3, <1>4 DEF Address
<1>6. WithVertical(a, b) \in Address
  BY <1>2, <1>3, <1>4 DEF Address
<1>. QED
  BY <1>1, <1>2, <1>5, <1>6

LEMMA NextTypes ==
  ASSUME NEW a \in Address
  PROVE  NextColumn(a) \in Address /\ NextLine(a) \in Address
<1>1. /\ a.cx \in 0 .. Columns - 1 /\ a.cy \in 0 .. Rows - 1
      /\ a.nth \in 0 .. 1 /\ a.ntv \in 0 .. 1 /\ a.fy \in 0 .. Fine - 1
  BY AddressType
<1>2. Columns \in Nat \ {0} /\ Rows \in Nat \ {0} /\ Fine \in {2, 4, 8} /\ LastRow \in Nat
  BY ScrollAssumption DEF ScrollAssumption
<1>3. NextColumn(a) \in Address
  BY <1>1, <1>2, ColumnStep DEF Address
<1>4. NextLine(a) \in Address
  BY <1>1, <1>2, LineStep DEF Address
<1>. QED
  BY <1>3, <1>4

-----------------------------------------------------------------------------
(* Types. *)

RunType == [from : 0 .. Span - 1, reads : 0 .. Span - 1, got : Nat]

ScrollTypes == ScrollTypeOK /\ (run = None \/ run \in RunType)

LEMMA ScrollSizes ==
  /\ Tiles \in Nat \ {0} /\ LastRow \in Nat \ {0} /\ Rows \in Nat /\ Idle \in Nat \ {0}
  /\ CopyFrom \in Nat /\ CopyTo \in Nat /\ Prefetch \in Nat
  /\ LastShown = 8 * Tiles /\ LastShown \in Nat /\ LastDot = Prefetch + 19
  /\ LastShown + 1 < CopyFrom /\ CopyFrom <= CopyTo /\ CopyTo < Prefetch /\ Prefetch % 8 = 1
  /\ LastRow + 1 < Rows /\ Fine \in {2, 4, 8} /\ Columns \in Nat \ {0} /\ Rows \in Nat \ {0}
  /\ Lines \in Nat \ {0} /\ Lines = (LastRow + 1) * Fine /\ PreRender = Lines + Idle
  /\ PreRender \in Nat /\ LastDot \in Nat
<1>1. /\ Tiles \in Nat \ {0} /\ LastRow \in Nat \ {0} /\ Rows \in Nat \ {0} /\ Idle \in Nat \ {0}
      /\ CopyFrom \in Nat /\ CopyTo \in Nat /\ Prefetch \in Nat /\ Columns \in Nat \ {0}
      /\ LastRow + 1 < Rows /\ Fine \in {2, 4, 8} /\ CopyFrom <= CopyTo /\ CopyTo < Prefetch
      /\ LastShown + 1 < CopyFrom /\ Prefetch % Tile = 1
  BY ScrollAssumption DEF ScrollAssumption
<1>2. LastShown = 8 * Tiles /\ LastShown \in Nat
  BY <1>1 DEF LastShown, Tile
<1>3. Lines \in Nat \ {0} /\ Lines = (LastRow + 1) * Fine
  BY <1>1 DEF Lines
<1>4. PreRender = Lines + Idle /\ LastDot = Prefetch + 19
  BY <1>1 DEF PreRender, LastDot, Tile
<1>. QED
  BY <1>1, <1>2, <1>3, <1>4 DEF Tile

LEMMA FollowingType ==
  ASSUME NEW a \in [line : 0 .. PreRender, dot : 0 .. LastDot], NEW b \in Following(a)
  PROVE  /\ b \in [line : 0 .. PreRender, dot : 0 .. LastDot]
         /\ a.dot < LastDot - 1 => b = [line |-> a.line, dot |-> a.dot + 1]
         /\ b.dot = 0 => (b.line = 0 /\ a.line = PreRender) \/ b.line = a.line + 1
         /\ b.dot # 0 => b.line = a.line /\ b.dot = a.dot + 1
         /\ b.dot = 0 => a.dot = LastDot \/ (a.dot = LastDot - 1 /\ a.line = PreRender)
<1>1. a.line \in 0 .. PreRender /\ a.dot \in 0 .. LastDot /\ PreRender \in Nat /\ LastDot \in Nat
      /\ LastDot > 19
  BY ScrollSizes
<1>2. [a EXCEPT !.dot = @ + 1] = [line |-> a.line, dot |-> a.dot + 1]
  OBVIOUS
<1>3. CASE b = Moved(a)
  <2>1. CASE a.dot < LastDot
    <3>1. b = [line |-> a.line, dot |-> a.dot + 1]
      BY <1>2, <1>3, <2>1 DEF Moved
    <3>. QED
      BY <1>1, <2>1, <3>1
  <2>2. CASE a.dot = LastDot /\ a.line = PreRender
    <3>1. b = [line |-> 0, dot |-> 0]
      BY <1>1, <1>3, <2>2 DEF Moved
    <3>. QED
      BY <1>1, <2>2, <3>1
  <2>3. CASE a.dot = LastDot /\ a.line < PreRender
    <3>1. b = [line |-> a.line + 1, dot |-> 0]
      BY <1>1, <1>3, <2>3 DEF Moved
    <3>2. a.line + 1 \in 0 .. PreRender /\ 0 \in 0 .. LastDot
      BY <1>1, <2>3
    <3>3. b \in [line : 0 .. PreRender, dot : 0 .. LastDot]
      BY <3>1, <3>2
    <3>4. b.line = a.line + 1 /\ b.dot = 0 /\ ~(a.dot < LastDot - 1)
      BY <1>1, <2>3, <3>1
    <3>. QED
      BY <2>3, <3>3, <3>4, Zenon
  <2>. QED
    BY <1>1, <2>1, <2>2, <2>3
<1>4. CASE b # Moved(a)
  <2>1. b = [line |-> 0, dot |-> 0] /\ a.line = PreRender /\ a.dot = LastDot - 1
    BY <1>4 DEF Following, Skips
  <2>. QED
    BY <1>1, <2>1
<1>. QED
  BY <1>3, <1>4

LEMMA WalkedType ==
  ASSUME v \in Address, t \in Address, NEW b
  PROVE  Walked(b) \in Address
<1> DEFINE a == IF Loads(b.dot) THEN NextColumn(v) ELSE v
<1>1. a \in Address
  BY NextTypes
<1>2. NextLine(a) \in Address /\ WithHorizontal(a, t) \in Address /\ WithVertical(a, t) \in Address
  BY <1>1, NextTypes, CopyStep
<1>. QED
  BY <1>1, <1>2 DEF Walked

LEMMA AccessedType ==
  ASSUME v \in Address
  PROVE  Accessed \in Address /\ (~Glitches => ~Beyond(Accessed) /\ Accessed = Advanced(v))
<1>1. NextLine(NextColumn(v)) \in Address
  BY NextTypes
<1>. QED
  BY <1>1, AdvancedOf DEF Accessed

LEMMA ZeroType == Zero \in Address
<1>1. Columns \in Nat \ {0} /\ Rows \in Nat \ {0} /\ Fine \in {2, 4, 8}
  BY ScrollSizes
<1>. QED
  BY <1>1 DEF Zero, Address

LEMMA InitTypes == Init => ScrollTypes
<1> SUFFICES ASSUME Init PROVE ScrollTypes
  OBVIOUS
<1>1. 0 \in 0 .. PreRender /\ 1 \in 0 .. LastDot /\ 0 \in 0 .. Tile - 1
  BY ScrollSizes DEF Tile
<1>2. beam \in [line : 0 .. PreRender, dot : 0 .. LastDot]
  BY <1>1 DEF Init
<1>3. v = Zero /\ t = Zero /\ x = 0 /\ w = FALSE /\ down = FALSE /\ buffer = 0
      /\ hor = None /\ ver = None /\ run = None /\ mask = [bg |-> FALSE, sp |-> FALSE]
  BY DEF Init
<1>4. mask \in [bg : BOOLEAN, sp : BOOLEAN]
  BY <1>3
<1>. QED
  BY <1>1, <1>2, <1>3, <1>4, ZeroType DEF ScrollTypes, ScrollTypeOK

LEMMA WriteScrollTypes ==
  ASSUME ScrollTypeOK, NEW byte \in Nat, WriteScroll(byte)
  PROVE  /\ t' \in Address /\ x' \in 0 .. Tile - 1
         /\ ~w => t' = [cx |-> (byte \div Tile) % Columns, cy |-> t.cy,
                        nth |-> t.nth, ntv |-> t.ntv, fy |-> t.fy] /\ x' = byte % Tile
         /\ w => t' = [cx |-> t.cx, cy |-> (byte \div Fine) % Rows,
                       nth |-> t.nth, ntv |-> t.ntv, fy |-> byte % Fine] /\ x' = x
<1>1. t \in Address /\ Columns \in Nat \ {0} /\ Rows \in Nat \ {0} /\ Fine \in {2, 4, 8}
  BY ScrollSizes DEF ScrollTypeOK
<1>2. /\ t.cx \in 0 .. Columns - 1 /\ t.cy \in 0 .. Rows - 1
      /\ t.nth \in 0 .. 1 /\ t.ntv \in 0 .. 1 /\ t.fy \in 0 .. Fine - 1
  BY <1>1, AddressType
<1>3. CASE ~w
  <2> DEFINE c == (byte \div Tile) % Columns
  <2>1. t' = [t EXCEPT !.cx = c] /\ x' = byte % Tile
    BY <1>3 DEF WriteScroll
  <2>2. c \in 0 .. Columns - 1
    <3>1. byte \div Tile \in Nat
      BY DEF Tile
    <3>. QED
      BY <1>1, <3>1, Division
  <2> HIDE DEF c
  <2>3. t' = [cx |-> c, cy |-> t.cy, nth |-> t.nth, ntv |-> t.ntv, fy |-> t.fy]
    BY <1>1, <2>1 DEF Address
  <2>4. t' \in Address
    BY <1>2, <2>2, <2>3 DEF Address
  <2>5. x' \in 0 .. Tile - 1
    BY <2>1 DEF Tile
  <2>. QED
    BY <1>3, <2>1, <2>3, <2>4, <2>5 DEF c
<1>4. CASE w
  <2> DEFINE c == (byte \div Fine) % Rows
             f == byte % Fine
  <2>1. t' = [t EXCEPT !.fy = f, !.cy = c] /\ x' = x
    BY <1>4 DEF WriteScroll
  <2>2. c \in 0 .. Rows - 1 /\ f \in 0 .. Fine - 1
    <3>1. byte \div Fine \in Nat /\ byte % Fine \in 0 .. Fine - 1
      BY <1>1, Division
    <3>. QED
      BY <1>1, <3>1, Division
  <2> HIDE DEF c, f
  <2>3. t' = [cx |-> t.cx, cy |-> c, nth |-> t.nth, ntv |-> t.ntv, fy |-> f]
    BY <1>1, <2>1, RowSet, Zenon
  <2>4. t' \in Address
    BY <1>2, <2>2, <2>3 DEF Address
  <2>. QED
    BY <1>4, <2>1, <2>3, <2>4 DEF c, f, ScrollTypeOK
<1>. QED
  BY <1>3, <1>4 DEF ScrollTypeOK

LEMMA WriteAddressTypes ==
  ASSUME ScrollTypeOK, NEW byte, byte \in (IF w THEN Lows ELSE Highs), WriteAddress(byte)
  PROVE  /\ t' \in Address /\ v' \in Address /\ byte \in Nat
         /\ ~w => t' = Fields(HighBits(byte) * LowSpan + (Number(t) % LowSpan)) /\ v' = v
         /\ w => t' = Lowered(t, byte) /\ v' = t' /\ byte \in 0 .. LowSpan - 1
         /\ (run = None \/ run \in RunType) => (run' = None \/ run' \in RunType)
<1>1. t \in Address /\ v \in Address /\ w \in BOOLEAN
  BY DEF ScrollTypeOK
<1>2. Lows \subseteq 0 .. LowSpan - 1 /\ Highs \subseteq Nat /\ LowSpan \in Nat /\ Span \in Nat \ {0}
  BY ScrollAssumption, Sizes DEF ScrollAssumption
<1>3. CASE ~w
  <2>1. byte \in Nat
    BY <1>2, <1>3
  <2>2. t' = Fields(HighBits(byte) * LowSpan + (Number(t) % LowSpan)) /\ v' = v /\ run' = run
    BY <1>3 DEF WriteAddress
  <2>3. HighBits(byte) * LowSpan + (Number(t) % LowSpan) \in 0 .. Span - 1
    BY <1>1, <2>1, FirstByte
  <2>4. t' \in Address
    BY <2>2, <2>3, FieldsOf
  <2>. QED
    BY <1>1, <1>3, <2>1, <2>2, <2>4
<1>4. CASE w
  <2>1. byte \in 0 .. LowSpan - 1 /\ byte \in Nat
    BY <1>2, <1>4
  <2> DEFINE c == byte % Columns
             y == LowRows * (t.cy \div LowRows) + ((byte \div Columns) % LowRows)
  <2>2. t' = [t EXCEPT !.cx = c, !.cy = y] /\ v' = t'
    BY <1>4 DEF WriteAddress
  <2>3. t' = [cx |-> c, cy |-> y, nth |-> t.nth, ntv |-> t.ntv, fy |-> t.fy]
    <3> HIDE DEF c, y
    <3>1. [t EXCEPT !.cx = c, !.cy = y] = [[t EXCEPT !.cx = c] EXCEPT !.cy = y]
      OBVIOUS
    <3>2. [t EXCEPT !.cx = c] = [cx |-> c, cy |-> t.cy, nth |-> t.nth, ntv |-> t.ntv, fy |-> t.fy]
      BY <1>1 DEF Address
    <3>3. [[cx |-> c, cy |-> t.cy, nth |-> t.nth, ntv |-> t.ntv, fy |-> t.fy] EXCEPT !.cy = y]
            = [cx |-> c, cy |-> y, nth |-> t.nth, ntv |-> t.ntv, fy |-> t.fy]
      OBVIOUS
    <3>. QED
      BY <2>2, <3>1, <3>2, <3>3, Zenon
  <2>4. t' = Lowered(t, byte)
    BY <2>3 DEF Lowered
  <2>5. t' \in Address
    BY <1>1, <2>1, <2>4, SecondByte
  <2>6. run' = None \/ run' \in RunType
    <3>1. CASE Beyond(v')
      BY <1>4, <3>1 DEF WriteAddress
    <3>2. CASE ~Beyond(v')
      <4>1. run' = [from |-> Number(v'), reads |-> 0, got |-> 0]
        BY <1>4, <3>2 DEF WriteAddress
      <4>2. v' \in Address
        BY <2>2, <2>5
      <4>3. PICK a \in Address : a = v'
        BY <4>2
      <4>4. Number(a) \in 0 .. Span - 1
        BY NumberOf
      <4>5. Number(v') = Number(a)
        BY <4>3
      <4>. QED
        BY <1>2, <4>1, <4>4, <4>5 DEF RunType
    <3>. QED
      BY <3>1, <3>2
  <2>. QED
    BY <1>4, <2>1, <2>2, <2>4, <2>5, <2>6
<1>. QED
  BY <1>3, <1>4

LEMMA StepTypes == ScrollTypes /\ [Next]_vars => ScrollTypes'
<1> SUFFICES ASSUME ScrollTypes, [Next]_vars PROVE ScrollTypes'
  OBVIOUS
<1> USE DEF ScrollTypes
<1>0. Masks \subseteq [bg : BOOLEAN, sp : BOOLEAN] /\ Scrolls \subseteq Nat
  BY ScrollAssumption DEF ScrollAssumption
<1>1. CASE Dot
  <2>1. PICK b \in Following(beam) : DotAt(b)
    BY <1>1 DEF Dot
  <2>2. beam' \in [line : 0 .. PreRender, dot : 0 .. LastDot]
    BY <2>1, FollowingType DEF DotAt, ScrollTypeOK
  <2>3. v' \in Address
    BY <2>1, WalkedType DEF DotAt, ScrollTypeOK
  <2>4. (hor' = t \/ hor' = hor) /\ (ver' = t \/ ver' = ver) /\ (run' = None \/ run' = run)
    BY <2>1 DEF DotAt
  <2>. QED
    BY <2>1, <2>2, <2>3, <2>4 DEF DotAt, ScrollTypeOK
<1>2. ASSUME NEW n \in {0, 1}, NEW d \in {0, 1}, WriteControl(n, n, d = 1) PROVE ScrollTypes'
  <2>1. t' = [t EXCEPT !.nth = n, !.ntv = n] /\ t \in Address
    BY <1>2 DEF WriteControl, ScrollTypeOK
  <2>2. t' = [cx |-> t.cx, cy |-> t.cy, nth |-> n, ntv |-> n, fy |-> t.fy]
    <3>1. [t EXCEPT !.nth = n, !.ntv = n] = [[t EXCEPT !.nth = n] EXCEPT !.ntv = n]
      OBVIOUS
    <3>2. [t EXCEPT !.nth = n] = [cx |-> t.cx, cy |-> t.cy, nth |-> n, ntv |-> t.ntv, fy |-> t.fy]
      BY <2>1 DEF Address
    <3>3. [[cx |-> t.cx, cy |-> t.cy, nth |-> n, ntv |-> t.ntv, fy |-> t.fy] EXCEPT !.ntv = n]
            = [cx |-> t.cx, cy |-> t.cy, nth |-> n, ntv |-> n, fy |-> t.fy]
      OBVIOUS
    <3>. QED
      BY <2>1, <3>1, <3>2, <3>3, Zenon
  <2>3. t' \in Address
    BY <2>1, <2>2, AddressType DEF Address
  <2>4. run' = None \/ run' = run
    BY <1>2 DEF WriteControl
  <2>. QED
    BY <1>2, <2>3, <2>4 DEF WriteControl, pipeline, ScrollTypeOK
<1>3. ASSUME NEW m \in Masks, WriteMask(m) PROVE ScrollTypes'
  BY <1>0, <1>3 DEF WriteMask, pipeline, ScrollTypeOK
<1>4. ASSUME NEW b \in Scrolls, WriteScroll(b) PROVE ScrollTypes'
  <2>1. t' \in Address /\ x' \in 0 .. Tile - 1
    BY <1>0, <1>4, WriteScrollTypes
  <2>. QED
    BY <1>4, <2>1 DEF WriteScroll, pipeline, ScrollTypeOK
<1>5. ASSUME NEW b \in (IF w THEN Lows ELSE Highs), WriteAddress(b) PROVE ScrollTypes'
  <2>1. t' \in Address /\ v' \in Address /\ (run' = None \/ run' \in RunType)
    BY <1>5, WriteAddressTypes
  <2>2. (hor' = None \/ hor' = hor) /\ (ver' = None \/ ver' = ver)
    BY <1>5 DEF WriteAddress
  <2>. QED
    BY <1>5, <2>1, <2>2 DEF WriteAddress, pipeline, ScrollTypeOK
<1>6. CASE ReadStatus
  BY <1>6 DEF ReadStatus, ToggleCleared, pipeline, ScrollTypeOK
<1>7. CASE ReadData
  <2>1. v' \in Address
    BY <1>7, AccessedType DEF ReadData, ScrollTypeOK
  <2>2. Number(v) \in 0 .. Span - 1 /\ Span \in Nat \ {0} /\ PaletteFrom \in Nat
        /\ Beneath(Number(v)) \in Nat
    <3>1. Number(v) \in 0 .. Span - 1 /\ Span \in Nat \ {0}
      BY NumberOf, Sizes DEF ScrollTypeOK
    <3>2. PaletteFrom \in Span \div 4 .. Span
      BY ScrollAssumption DEF ScrollAssumption
    <3>. QED
      BY <3>1, <3>2 DEF Beneath
  <2>3. buffer' \in Nat /\ Result \in Nat
    BY <1>7, <2>2 DEF ReadData, ScrollTypeOK, Result
  <2>4. run' = None \/ run' \in RunType
    <3>1. CASE run = None \/ Glitches \/ Renders
      BY <1>7, <3>1 DEF ReadData
    <3>2. CASE ~(run = None \/ Glitches \/ Renders)
      <4> DEFINE n == (run.reads + 1) % Span
      <4>1. run' = [run EXCEPT !.reads = n, !.got = Result]
        BY <1>7, <3>2 DEF ReadData
      <4>2. n \in 0 .. Span - 1 /\ run \in RunType
        <5>1. run \in RunType /\ run.reads \in Nat
          BY <2>2, <3>2 DEF RunType
        <5>2. run.reads + 1 \in Nat /\ Span \in Nat \ {0}
          BY <2>2, <5>1
        <5>3. ((run.reads + 1) % Span) \in 0 .. Span - 1
          BY <5>2, Division
        <5>. QED
          BY <5>1, <5>3
      <4> HIDE DEF n
      <4>. QED
        BY <2>3, <4>1, <4>2 DEF RunType
    <3>. QED
      BY <3>1, <3>2
  <2>. QED
    BY <1>7, <2>1, <2>3, <2>4 DEF ReadData, pipeline, ScrollTypeOK
<1>8. CASE WriteData
  <2>1. v' \in Address
    BY <1>8, AccessedType DEF WriteData, ScrollTypeOK
  <2>. QED
    BY <1>8, <2>1 DEF WriteData, pipeline, ScrollTypeOK
<1>9. CASE Reset
  <2>1. 0 \in 0 .. PreRender /\ 1 \in 0 .. LastDot /\ 0 \in 0 .. Tile - 1
    BY ScrollSizes DEF Tile
  <2>2. beam' \in [line : 0 .. PreRender, dot : 0 .. LastDot]
    BY <1>9, <2>1 DEF Reset
  <2>3. v' = Zero /\ t' = Zero /\ x' = 0 /\ w' = FALSE /\ down' = FALSE /\ buffer' = 0
        /\ hor' = None /\ ver' = None /\ run' = None /\ mask' = [bg |-> FALSE, sp |-> FALSE]
    BY <1>9 DEF Reset
  <2>4. mask' \in [bg : BOOLEAN, sp : BOOLEAN]
    BY <2>3
  <2>. QED
    BY <2>1, <2>2, <2>3, <2>4, ZeroType DEF ScrollTypeOK
<1>10. CASE UNCHANGED vars
  BY <1>10 DEF vars, ScrollTypeOK
<1>. QED
  BY <1>1, <1>2, <1>3, <1>4, <1>5, <1>6, <1>7, <1>8, <1>9, <1>10 DEF Next, Access

\* The registers keep their widths.
THEOREM ScrollTypeCorrectness == Spec => []ScrollTypeOK
<1>1. ScrollTypes => ScrollTypeOK
  BY DEF ScrollTypes
<1>. QED
  BY InitTypes, StepTypes, <1>1, PTL DEF Spec

-----------------------------------------------------------------------------
(* Reads of $2007. *)

Stride == IF down THEN Columns ELSE 1

\* The address that k reads come to, from f on.
Reached(f, k) == (f + k * Stride) % Span

LEMMA ReachedNext ==
  ASSUME down \in BOOLEAN, NEW f \in 0 .. Span - 1, NEW k \in 0 .. Span - 1
  PROVE  /\ (Reached(f, k) + Stride) % Span = Reached(f, (k + 1) % Span)
         /\ Reached(f, 0) = f /\ Reached(f, k) \in 0 .. Span - 1
<1>1. Span \in Nat \ {0} /\ Stride \in Nat
  BY Sizes DEF Stride
<1> DEFINE n == f + k * Stride
<1>2. k * Stride \in Nat /\ (k + 1) * Stride = k * Stride + Stride /\ 0 * Stride = 0
      /\ Span * Stride \in Nat
  BY <1>1, Z3
<1>3. n \in Nat /\ f \in Nat
  BY <1>1, <1>2
<1>4. f % Span = f /\ Reached(f, 0) = f
  <2>1. Span * 0 + f = f /\ f + 0 = f
    BY <1>1, <1>3, Z3
  <2>2. (Span * 0 + f) % Span = f
    BY <1>1, DivisionUnique
  <2>. QED
    BY <1>2, <2>1, <2>2 DEF Reached
<1>5. ((n % Span) + Stride) % Span = (n + Stride) % Span
  <2> HIDE DEF n
  <2>. QED
    BY <1>1, <1>3, ModSum
<1>6. n + Stride = f + (k + 1) * Stride
  BY <1>1, <1>2
<1>7. ASSUME k + 1 < Span PROVE (Reached(f, k) + Stride) % Span = Reached(f, (k + 1) % Span)
  <2>1. (k + 1) % Span = k + 1
    <3>1. Span * 0 + (k + 1) = k + 1
      BY <1>1, Z3
    <3>2. k + 1 \in 0 .. Span - 1
      BY <1>1, <1>7
    <3>3. (Span * 0 + (k + 1)) % Span = k + 1
      BY <1>1, <3>2, DivisionUnique
    <3>. QED
      BY <3>1, <3>3
  <2>. QED
    BY <1>5, <1>6, <2>1 DEF Reached
<1>8. ASSUME k + 1 = Span PROVE (Reached(f, k) + Stride) % Span = Reached(f, (k + 1) % Span)
  <2>1. (Span * 1 + 0) % Span = 0 /\ Span * 1 + 0 = Span
    <3>1. 0 \in 0 .. Span - 1 /\ 1 \in Nat
      BY <1>1
    <3>2. (Span * 1 + 0) % Span = 0
      BY <1>1, <3>1, DivisionUnique
    <3>3. Span * 1 + 0 = Span
      BY <1>1, Z3
    <3>. QED
      BY <3>2, <3>3
  <2>2. (k + 1) % Span = 0
    BY <1>8, <2>1
  <2>3. (Span * Stride + f) % Span = f
    BY <1>1, DivisionUnique
  <2>4. f + (k + 1) * Stride = Span * Stride + f
    BY <1>2, <1>3, <1>8
  <2>5. (Reached(f, k) + Stride) % Span = f
    BY <1>5, <1>6, <2>3, <2>4 DEF Reached
  <2>6. Reached(f, (k + 1) % Span) = f
    BY <1>4, <2>2
  <2>. QED
    BY <2>5, <2>6
<1>9. Reached(f, k) \in 0 .. Span - 1
  <2> HIDE DEF n
  <2>1. n % Span \in 0 .. Span - 1
    BY <1>1, <1>3, Division
  <2>. QED
    BY <2>1 DEF Reached, n
<1>10. k + 1 < Span \/ k + 1 = Span
  BY <1>1
<1>. QED
  BY <1>4, <1>7, <1>8, <1>9, <1>10

\* What both formulas say, in these terms.
LEMMA ReadingForms ==
  /\ Reading <=> (run # None =>
       /\ Number(v) = Reached(run.from, run.reads) /\ ~Beyond(v)
       /\ run.reads > 0 => buffer = Beneath(Reached(run.from, run.reads - 1)))
  /\ ReadsInOrder <=> (run # None /\ run.reads > 0 =>
       IF Reached(run.from, run.reads - 1) >= PaletteFrom
       THEN run.got = Reached(run.from, run.reads - 1)
       ELSE run.reads > 1 => run.got = Beneath(Reached(run.from, run.reads - 2)))
BY DEF Reading, ReadsInOrder, Reached, Stride

InOrder == Reading /\ ReadsInOrder

LEMMA StepReadData == ScrollTypes /\ InOrder /\ ReadData /\ run' # None => InOrder'
<1> SUFFICES ASSUME ScrollTypes, InOrder, ReadData, run' # None PROVE InOrder'
  OBVIOUS
<1>1. run # None /\ ~Glitches /\ ~Renders
  BY DEF ReadData
<1> DEFINE k == run.reads
           f == run.from
           m == (k + 1) % Span
<1>2. k \in 0 .. Span - 1 /\ f \in 0 .. Span - 1 /\ run \in RunType /\ Span \in Nat \ {0}
      /\ down \in BOOLEAN /\ v \in Address
  BY <1>1, Sizes DEF ScrollTypes, ScrollTypeOK, RunType
<1>3. run' = [run EXCEPT !.reads = m, !.got = Result]
  BY <1>1 DEF ReadData
<1>4. run'.from = f /\ run'.reads = m /\ run'.got = Result
  <2> HIDE DEF m
  <2>. QED
    BY <1>2, <1>3 DEF RunType
<1>5. /\ Number(v) = Reached(f, k) /\ ~Beyond(v)
      /\ k > 0 => buffer = Beneath(Reached(f, k - 1))
  BY <1>1, ReadingForms DEF InOrder
<1>6. v' = Advanced(v) /\ ~Beyond(v') /\ Number(v') = (Number(v) + Stride) % Span
  <2>1. v' = Advanced(v)
    BY <1>1 DEF ReadData, Accessed
  <2>2. PICK a \in Address : a = Advanced(v) /\ ~Beyond(a) /\ Number(a) = (Number(v) + Stride) % Span
    BY <1>2, AdvancedOf DEF Stride
  <2>. QED
    BY <2>1, <2>2
<1>7. Number(v') = Reached(f, m)
  <2> HIDE DEF f, k
  <2>1. (Reached(f, k) + Stride) % Span = Reached(f, (k + 1) % Span)
    BY <1>2, ReachedNext
  <2>. QED
    BY <1>5, <1>6, <2>1 DEF m
<1>8. UNCHANGED down /\ buffer' = Beneath(Number(v))
  BY <1>5 DEF ReadData
<1>9. m \in 0 .. Span - 1 /\ (m = k + 1 \/ m = 0)
  <2>1. m \in 0 .. Span - 1
    <3>1. k + 1 \in Nat
      BY <1>2
    <3>2. ((k + 1) % Span) \in 0 .. Span - 1
      BY <1>2, <3>1, Division
    <3>. QED
      BY <3>2
  <2>2. CASE k + 1 < Span
    <3>1. Span * 0 + (k + 1) = k + 1
      BY <1>2, Z3
    <3>2. k + 1 \in 0 .. Span - 1
      BY <1>2, <2>2
    <3>3. (Span * 0 + (k + 1)) % Span = k + 1
      BY <1>2, <3>2, DivisionUnique
    <3>. QED
      BY <2>1, <3>1, <3>3
  <2>3. CASE k + 1 = Span
    <3>1. 0 \in 0 .. Span - 1 /\ 1 \in Nat
      BY <1>2
    <3>2. (Span * 1 + 0) % Span = 0
      BY <1>2, <3>1, DivisionUnique
    <3>3. Span * 1 + 0 = Span
      BY <1>2, Z3
    <3>. QED
      BY <2>1, <2>3, <3>2, <3>3
  <2>4. k + 1 < Span \/ k + 1 = Span
    BY <1>2
  <2>. QED
    BY <2>2, <2>3, <2>4
<1> HIDE DEF m
<1>10. m > 0 => m = k + 1 /\ m - 1 = k /\ m - 2 = k - 1 /\ (m > 1 => k > 0)
  BY <1>2, <1>9
<1>11. \A j : Reached(f, j)' = Reached(f, j)
  <2>1. f' = f
    BY <1>4
  <2>. QED
    BY <1>8, <2>1 DEF Reached, Stride
<1>12. Result = IF Number(v) >= PaletteFrom THEN Number(v) ELSE buffer
  BY <1>5 DEF Result
<1>13. Reading'
  <2>1. m > 0 => buffer' = Beneath(Reached(f, m - 1))
    BY <1>5, <1>8, <1>10
  <2>. QED
    BY <1>4, <1>6, <1>7, <1>8, <2>1 DEF Reading, Reached, Stride
<1>14. ReadsInOrder'
  <2>1. ASSUME m > 0
        PROVE  IF Reached(f, m - 1) >= PaletteFrom THEN run'.got = Reached(f, m - 1)
               ELSE m > 1 => run'.got = Beneath(Reached(f, m - 2))
    BY <1>4, <1>5, <1>10, <1>12, <2>1
  <2>. QED
    BY <1>4, <1>8, <2>1 DEF ReadsInOrder, Reached, Stride
<1>. QED
  BY <1>13, <1>14 DEF InOrder

LEMMA StepReading == ScrollTypes /\ InOrder /\ [Next]_vars => InOrder'
<1> SUFFICES ASSUME ScrollTypes, InOrder, [Next]_vars PROVE InOrder'
  OBVIOUS
<1>1. run' = None => InOrder'
  BY DEF InOrder, Reading, ReadsInOrder
<1>2. UNCHANGED <<run, down, v, buffer>> => InOrder'
  BY DEF InOrder, Reading, ReadsInOrder, Number, Beyond
<1>3. CASE Dot
  <2>1. PICK b \in Following(beam) : DotAt(b)
    BY <1>3 DEF Dot
  <2>2. run' = None \/ UNCHANGED <<run, down, v, buffer>>
    BY <2>1 DEF DotAt
  <2>. QED
    BY <1>1, <1>2, <2>2
<1>4. ASSUME NEW n \in {0, 1}, NEW d \in {0, 1}, WriteControl(n, n, d = 1) PROVE InOrder'
  <2>1. run' = None \/ UNCHANGED <<run, down, v, buffer>>
    BY <1>4 DEF WriteControl
  <2>. QED
    BY <1>1, <1>2, <2>1
<1>5. ASSUME NEW m \in Masks, WriteMask(m) PROVE InOrder'
  BY <1>2, <1>5 DEF WriteMask
<1>6. ASSUME NEW b \in Scrolls, WriteScroll(b) PROVE InOrder'
  BY <1>2, <1>6 DEF WriteScroll
<1>7. ASSUME NEW b \in (IF w THEN Lows ELSE Highs), WriteAddress(b) PROVE InOrder'
  <2>1. CASE ~w
    BY <1>2, <1>7, <2>1 DEF WriteAddress
  <2>2. CASE w /\ ~Beyond(v')
    <3>1. run' = [from |-> Number(v'), reads |-> 0, got |-> 0] /\ UNCHANGED down
      BY <1>7, <2>2 DEF WriteAddress
    <3>2. v' \in Address
      BY <1>7, WriteAddressTypes DEF ScrollTypes
    <3>3. PICK a \in Address : a = v'
      BY <3>2
    <3>4. Number(a) \in 0 .. Span - 1 /\ down \in BOOLEAN
      BY NumberOf DEF ScrollTypes, ScrollTypeOK
    <3> DEFINE f == Number(a)
    <3>5. Reached(f, 0) = f
      <4>1. 0 \in 0 .. Span - 1
        BY Sizes
      <4> HIDE DEF f
      <4>2. f \in 0 .. Span - 1
        BY <3>4 DEF f
      <4>. QED
        BY <3>4, <4>1, <4>2, ReachedNext
    <3>6. Number(v') = f
      BY <3>3
    <3>7. Reached(f, 0)' = Reached(f, 0)
      BY <3>1, <3>3 DEF Reached, Stride
    <3> HIDE DEF f
    <3>8. Number(v') = (f + 0 * (IF down' THEN Columns ELSE 1)) % Span
      BY <3>1, <3>5, <3>6 DEF Reached, Stride
    <3>9. Reading'
      BY <2>2, <3>1, <3>6, <3>8 DEF Reading
    <3>10. ReadsInOrder'
      BY <3>1 DEF ReadsInOrder
    <3>. QED
      BY <3>9, <3>10 DEF InOrder
  <2>3. CASE w /\ Beyond(v')
    BY <1>1, <1>7, <2>3 DEF WriteAddress
  <2>. QED
    BY <2>1, <2>2, <2>3
<1>8. CASE ReadStatus
  BY <1>2, <1>8 DEF ReadStatus
<1>9. CASE ReadData
  BY <1>1, <1>9, StepReadData
<1>10. CASE WriteData
  BY <1>1, <1>10 DEF WriteData
<1>11. CASE Reset
  BY <1>1, <1>11 DEF Reset
<1>12. CASE UNCHANGED vars
  BY <1>2, <1>12 DEF vars
<1>. QED
  BY <1>3, <1>4, <1>5, <1>6, <1>7, <1>8, <1>9, <1>10, <1>11, <1>12 DEF Next, Access

\* Reads of $2007 outside of rendering return the bytes from the address on in order, one read
\* late but for the palette.
THEOREM BytesInOrder == Spec => []ReadsInOrder
<1>1. Init => InOrder
  BY DEF Init, InOrder, Reading, ReadsInOrder
<1>2. InOrder => ReadsInOrder
  BY DEF InOrder
<1>. QED
  BY InitTypes, StepTypes, StepReading, <1>1, <1>2, PTL DEF Spec

-----------------------------------------------------------------------------
(* Pairs of writes. *)

Writes == Seq(Nat \X Nat)

LEMMA RegistersOf ==
  ASSUME NEW ws \in Writes
  PROVE  /\ Registers(ws) = <<5, 5>> => Two(ws, 5, 5)
         /\ Registers(ws) = <<6, 6>> => Two(ws, 6, 6)
         /\ Registers(ws) = <<6, 5, 5, 6>> =>
              Len(ws) = 4 /\ ws[1][1] = 6 /\ ws[2][1] = 5 /\ ws[3][1] = 5 /\ ws[4][1] = 6
<1>1. DOMAIN Registers(ws) = DOMAIN ws /\ DOMAIN ws = 1 .. Len(ws) /\ Len(ws) \in Nat
  BY DEF Registers, Writes
<1>2. \A i \in 1 .. Len(ws) : Registers(ws)[i] = ws[i][1]
  BY <1>1 DEF Registers
<1>3. ASSUME NEW p, NEW q, Registers(ws) = <<p, q>> PROVE Two(ws, p, q)
  <2>1. DOMAIN <<p, q>> = 1 .. 2 /\ <<p, q>>[1] = p /\ <<p, q>>[2] = q
    OBVIOUS
  <2>2. Len(ws) = 2
    BY <1>1, <1>3, <2>1
  <2>. QED
    BY <1>2, <1>3, <2>1, <2>2 DEF Two
<1>4. ASSUME Registers(ws) = <<6, 5, 5, 6>>
      PROVE  Len(ws) = 4 /\ ws[1][1] = 6 /\ ws[2][1] = 5 /\ ws[3][1] = 5 /\ ws[4][1] = 6
  <2> DEFINE s == <<6, 5, 5, 6>>
  <2>1. DOMAIN s = 1 .. 4 /\ s[1] = 6 /\ s[2] = 5 /\ s[3] = 5 /\ s[4] = 6
    OBVIOUS
  <2>2. Registers(ws) = s
    BY <1>4
  <2> HIDE DEF s
  <2>3. Len(ws) = 4
    <3>1. 1 .. Len(ws) = 1 .. 4
      BY <1>1, <2>1, <2>2
    <3>2. 4 \in 1 .. Len(ws) /\ 5 \notin 1 .. Len(ws)
      BY <3>1
    <3>. QED
      BY <1>1, <3>2
  <2>. QED
    BY <1>2, <2>1, <2>2, <2>3
<1>. QED
  BY <1>3, <1>4

\* The first byte of an address chooses the name table.
LEMMA TablesOf ==
  ASSUME NEW a \in Address, NEW byte \in Nat, Number(a) \div LowSpan = HighBits(byte)
  PROVE  a.nth + 2 * a.ntv = (byte \div (Rows \div LowRows)) % 4
<1> DEFINE u == Upper(a)
           p == a.cy \div LowRows
<1>1. HighRows \in Nat \ {0} /\ Tables \in Nat
  BY Sizes
<1>2. u \in Nat /\ (u % 4) = a.nth + 2 * a.ntv
  BY <1>1, AddressType
<1>3. p \in 0 .. HighRows - 1 /\ HighBits(byte) = p + HighRows * u
  BY LowOf
<1> HIDE DEF u, p
<1>4. HighRows * u \in Int
  BY <1>1, <1>2, Z3
<1>5. (HighRows * u + p) \div HighRows = u
  BY <1>1, <1>2, <1>3, DivisionUnique
<1>6. HighBits(byte) = HighRows * u + p
  BY <1>1, <1>3, <1>4
<1>7. (HighBits(byte) \div HighRows) % 4 = (byte \div HighRows) % 4
  BY HighBitsType
<1>. QED
  BY <1>2, <1>5, <1>6, <1>7 DEF HighRows

\* Both halves of a scroll position.
LEMMA Position ==
  ASSUME NEW byte \in Nat
  PROVE  /\ ((byte \div Tile) % Columns) * Tile + (byte % Tile) = byte % (Columns * Tile)
         /\ ((byte \div Fine) % Rows) * Fine + (byte % Fine) = byte % (Rows * Fine)
<1>1. ASSUME NEW a \in Nat \ {0}, NEW b \in Nat \ {0}
      PROVE  ((byte \div a) % b) * a + (byte % a) = byte % (b * a)
  <2>1. byte % (a * b) = a * ((byte \div a) % b) + (byte % a)
    BY DivisionByProduct
  <2>2. a * b = b * a
    BY Z3
  <2>3. byte \div a \in Nat
    BY Division
  <2>4. ((byte \div a) % b) \in Nat
    BY <2>3, Division
  <2>5. ((byte \div a) % b) * a = a * ((byte \div a) % b)
    <3> DEFINE m == (byte \div a) % b
    <3>1. m \in Nat
      BY <2>4
    <3> HIDE DEF m
    <3>2. m * a = a * m
      BY <3>1, Z3
    <3>. QED
      BY <3>2 DEF m
  <2>. QED
    BY <2>1, <2>2, <2>5
<1>2. Tile \in Nat \ {0} /\ Columns \in Nat \ {0} /\ Fine \in Nat \ {0} /\ Rows \in Nat \ {0}
  BY ScrollSizes DEF Tile
<1>. QED
  BY <1>1, <1>2

\* What the run of writes says of t, with the writes typed.
Pairing == ScrollTypes /\ writes \in Writes /\ Halfway

\* A run of writes is a run of one write less and the last write.
LEMMA LongRuns ==
  ASSUME NEW ws \in Writes, Len(ws) = 0 \/ Len(ws) >= 4
  PROVE  \A p, q, r : ~One(ws, p) /\ ~Two(ws, p, q) /\ ~Three(ws, p, q, r)
<1>1. PICK n \in Nat : n = Len(ws)
  BY DEF Writes
<1>2. n # 1 /\ n # 2 /\ n # 3
  BY <1>1
<1>. QED
  BY <1>1, <1>2, Zenon DEF One, Two, Three

Extends(us, ws, r, b) ==
  /\ Len(us) = Len(ws) + 1
  /\ \A i \in 1 .. Len(ws) : us[i] = ws[i]
  /\ us[Len(us)][1] = r /\ us[Len(us)][2] = b

Shortened(us, ws, r, b) ==
  /\ Len(us) # 0 /\ (Len(ws) = 0 => us[1][2] = b) /\ Len(us) > Len(ws)
  /\ \A p : One(us, p) => p = r /\ Len(ws) = 0
  /\ \A p, q : Two(us, p, q) => q = r /\ One(ws, p) /\ us[1] = ws[1] /\ us[2][2] = b
  /\ \A p, q, o : Three(us, p, q, o) =>
       o = r /\ Two(ws, p, q) /\ us[1] = ws[1] /\ us[2] = ws[2] /\ us[3][2] = b
  /\ \A p, q, o : Len(us) = 4 /\ us[1][1] = p /\ us[2][1] = q /\ us[3][1] = o =>
       /\ Three(ws, p, q, o) /\ us[4][2] = b
       /\ us[1] = ws[1] /\ us[2] = ws[2] /\ us[3] = ws[3]

LEMMA Runs ==
  ASSUME NEW ws \in Writes, NEW us \in Writes, NEW r, NEW b, Extends(us, ws, r, b)
  PROVE  Shortened(us, ws, r, b)
<1>1. PICK n \in Nat : n = Len(ws)
  BY DEF Writes
<1>2. PICK m \in Nat : m = Len(us)
  BY DEF Writes
<1>3. m = n + 1 /\ us[m][1] = r /\ us[m][2] = b /\ \A i \in 1 .. n : us[i] = ws[i]
  BY <1>1, <1>2 DEF Extends
<1>4. /\ n >= 1 => us[1] = ws[1]
      /\ n >= 2 => us[2] = ws[2]
      /\ n >= 3 => us[3] = ws[3]
  BY <1>3
<1>5. ASSUME NEW p, One(us, p) PROVE p = r /\ Len(ws) = 0
  <2>1. m = 1 /\ us[1][1] = p
    BY <1>2, <1>5, Zenon DEF One
  <2>2. n = 0 /\ p = r
    BY <1>3, <2>1
  <2>. QED
    BY <1>1, <2>2
<1>6. ASSUME NEW p, NEW q, Two(us, p, q)
      PROVE  q = r /\ One(ws, p) /\ us[1] = ws[1] /\ us[2][2] = b
  <2>1. m = 2 /\ us[1][1] = p /\ us[2][1] = q
    BY <1>2, <1>6, Zenon DEF Two
  <2>2. n = 1 /\ q = r /\ us[1] = ws[1] /\ us[2][2] = b
    BY <1>3, <1>4, <2>1
  <2>. QED
    BY <1>1, <2>1, <2>2, Zenon DEF One
<1>7. ASSUME NEW p, NEW q, NEW o, Three(us, p, q, o)
      PROVE  o = r /\ Two(ws, p, q) /\ us[1] = ws[1] /\ us[2] = ws[2] /\ us[3][2] = b
  <2>1. m = 3 /\ us[1][1] = p /\ us[2][1] = q /\ us[3][1] = o
    BY <1>2, <1>7, Zenon DEF Three
  <2>2. n = 2 /\ o = r /\ us[1] = ws[1] /\ us[2] = ws[2] /\ us[3][2] = b
    BY <1>3, <1>4, <2>1
  <2>. QED
    BY <1>1, <2>1, <2>2, Zenon DEF Two
<1>8. ASSUME NEW p, NEW q, NEW o, Len(us) = 4, us[1][1] = p, us[2][1] = q, us[3][1] = o
      PROVE  Three(ws, p, q, o) /\ us[4][2] = b /\ us[1] = ws[1] /\ us[2] = ws[2] /\ us[3] = ws[3]
  <2>1. m = 4
    BY <1>2, <1>8, Zenon
  <2>2. n = 3 /\ us[1] = ws[1] /\ us[2] = ws[2] /\ us[3] = ws[3] /\ us[4][2] = b
    BY <1>3, <1>4, <2>1
  <2>. QED
    BY <1>1, <1>8, <2>2, Zenon DEF Three
<1>9. Len(us) # 0 /\ (Len(ws) = 0 => us[1][2] = b) /\ Len(us) > Len(ws)
  BY <1>1, <1>2, <1>3
<1>. QED
  BY <1>5, <1>6, <1>7, <1>8, <1>9, Zenon DEF Shortened

\* One write more is the end of a run, or too much for any.
LEMMA Recording ==
  ASSUME writes \in Writes, NEW r \in Nat, NEW byte \in Nat, writes' = Recorded(r, byte)
  PROVE  /\ writes' \in Writes
         /\ \/ Len(writes') >= 4
            \/ Extends(writes', writes, r, byte)
         /\ Len(writes') > Len(writes) => Extends(writes', writes, r, byte)
<1> DEFINE e == <<r, byte>>
<1>1. e \in Nat \X Nat /\ e[1] = r /\ e[2] = byte
  OBVIOUS
<1>2. Len(writes) \in Nat
  BY DEF Writes
<1> HIDE DEF e
<1>3. CASE Len(writes) < 4
  <2>1. writes' = Append(writes, e)
    BY <1>3 DEF Recorded, e
  <2>2. /\ writes' \in Writes /\ Len(writes') = Len(writes) + 1
        /\ \A i \in 1 .. Len(writes) : writes'[i] = writes[i]
        /\ writes'[Len(writes) + 1] = e
    BY <1>1, <2>1 DEF Writes
  <2>. QED
    BY <1>1, <2>2 DEF Extends
<1>4. CASE ~(Len(writes) < 4)
  <2>1. writes' = writes
    BY <1>4 DEF Recorded
  <2>. QED
    BY <1>2, <1>4, <2>1
<1>. QED
  BY <1>3, <1>4

LEMMA FirstEntry ==
  ASSUME NEW ws \in Writes, NEW p, One(ws, p)
  PROVE  ws[1][2] \in Nat
<1>1. Len(ws) = 1
  BY DEF One
<1>2. 1 \in 1 .. Len(ws)
  BY <1>1
<1>3. ws[1] \in Nat \X Nat
  BY <1>2 DEF Writes
<1>. QED
  BY <1>3

\* A run that is none of these says nothing of t.
LEMMA NoRun ==
  ASSUME writes' \in Writes, Len(writes') >= 4
  PROVE  Halfway'
<1>1. Len(writes') # 0
  OBVIOUS
<1>2. ~One(writes', 5) /\ ~One(writes', 6) /\ ~Two(writes', 6, 5) /\ ~Three(writes', 6, 5, 5)
  BY LongRuns
<1>. QED
  BY <1>1, <1>2 DEF Halfway

LEMMA ScrollPairs ==
  ASSUME Pairing, NEW byte \in Nat, WriteScroll(byte)
  PROVE  /\ Halfway'
         /\ Len(writes') > Len(writes) /\ Two(writes', 5, 5) =>
              /\ t'.cx * Tile + x' = writes'[1][2] % (Columns * Tile)
              /\ t'.cy * Fine + t'.fy = writes'[2][2] % (Rows * Fine)
<1>1. writes' = Recorded(5, byte) /\ w' = ~w /\ w \in BOOLEAN
  BY DEF WriteScroll, Pairing, ScrollTypes, ScrollTypeOK
<1>2. /\ writes' \in Writes /\ writes \in Writes
      /\ Len(writes') >= 4 \/ Extends(writes', writes, 5, byte)
  <2>1. 5 \in Nat
    OBVIOUS
  <2>. QED
    BY <1>1, <2>1, Recording DEF Pairing
<1>3. /\ ~w => t' = [cx |-> (byte \div Tile) % Columns, cy |-> t.cy,
                     nth |-> t.nth, ntv |-> t.ntv, fy |-> t.fy] /\ x' = byte % Tile
      /\ w => t' = [cx |-> t.cx, cy |-> (byte \div Fine) % Rows,
                    nth |-> t.nth, ntv |-> t.ntv, fy |-> byte % Fine] /\ x' = x
  BY WriteScrollTypes DEF Pairing, ScrollTypes
<1>4. CASE Len(writes') >= 4
  <2>1. Halfway'
    BY <1>2, <1>4, NoRun
  <2>2. ~Two(writes', 5, 5)
    BY <1>2, <1>4, LongRuns
  <2>. QED
    BY <2>1, <2>2
<1>5. CASE Extends(writes', writes, 5, byte)
  <2>1. /\ Len(writes') # 0 /\ (Len(writes) = 0 => writes'[1][2] = byte)
        /\ One(writes', 5) => Len(writes) = 0
        /\ ~One(writes', 6)
        /\ \A p, q : Two(writes', p, q) =>
             One(writes, p) /\ writes'[1] = writes[1] /\ writes'[2][2] = byte
        /\ \A p, q, o : Three(writes', p, q, o) =>
             Two(writes, p, q) /\ writes'[1] = writes[1] /\ writes'[2] = writes[2]
               /\ writes'[3][2] = byte
    <3>1. 5 # 6
      OBVIOUS
    <3>2. Shortened(writes', writes, 5, byte)
      BY <1>2, <1>5, Runs, Zenon
    <3>. QED
      BY <3>1, <3>2, Zenon DEF Shortened
  <2>2. ASSUME One(writes', 5)
        PROVE  w' /\ t'.cx * Tile + x' = writes'[1][2] % (Columns * Tile)
    <3>1. Len(writes) = 0 /\ writes'[1][2] = byte
      BY <2>1, <2>2
    <3>2. ~w
      BY <3>1 DEF Pairing, Halfway
    <3>3. t'.cx = (byte \div Tile) % Columns /\ x' = byte % Tile
      BY <1>3, <3>2
    <3>. QED
      BY <1>1, <3>1, <3>2, <3>3, Position
  <2>4. ASSUME Two(writes', 6, 5)
        PROVE  /\ ~w' /\ t'.nth + 2 * t'.ntv = (writes'[1][2] \div (Rows \div LowRows)) % 4
               /\ t'.fy = writes'[2][2] % Fine /\ t'.cy = (writes'[2][2] \div Fine) % Rows
    <3>1. writes'[1] = writes[1] /\ writes'[2][2] = byte /\ One(writes, 6)
      BY <2>1, <2>4, Zenon
    <3>2. w /\ Number(t) \div LowSpan = HighBits(writes[1][2])
      BY <3>1 DEF Pairing, Halfway
    <3>3. writes[1][2] \in Nat
      BY <1>2, <3>1, FirstEntry
    <3>4. t.nth + 2 * t.ntv = (writes[1][2] \div (Rows \div LowRows)) % 4
      BY <3>2, <3>3, TablesOf DEF Pairing, ScrollTypes, ScrollTypeOK
    <3>5. t'.nth = t.nth /\ t'.ntv = t.ntv /\ t'.fy = byte % Fine /\ t'.cy = (byte \div Fine) % Rows
      BY <1>3, <3>2
    <3>. QED
      BY <1>1, <3>1, <3>2, <3>4, <3>5
  <2>5. ASSUME Three(writes', 6, 5, 5)
        PROVE  /\ w' /\ t'.nth + 2 * t'.ntv = (writes'[1][2] \div (Rows \div LowRows)) % 4
               /\ t'.fy = writes'[2][2] % Fine /\ t'.cy = (writes'[2][2] \div Fine) % Rows
               /\ x' = writes'[3][2] % Tile
    <3>1. /\ writes'[1] = writes[1] /\ writes'[2] = writes[2]
          /\ writes'[3][2] = byte /\ Two(writes, 6, 5)
      BY <2>1, <2>5, Zenon
    <3>2. /\ ~w /\ t.nth + 2 * t.ntv = (writes[1][2] \div (Rows \div LowRows)) % 4
          /\ t.fy = writes[2][2] % Fine /\ t.cy = (writes[2][2] \div Fine) % Rows
      BY <3>1 DEF Pairing, Halfway
    <3>3. t'.nth = t.nth /\ t'.ntv = t.ntv /\ t'.fy = t.fy /\ t'.cy = t.cy /\ x' = byte % Tile
      BY <1>3, <3>2
    <3>. QED
      BY <1>1, <3>1, <3>2, <3>3
  <2>7. Halfway'
    BY <2>1, <2>2, <2>4, <2>5 DEF Halfway
  <2>8. ASSUME Two(writes', 5, 5)
        PROVE  /\ t'.cx * Tile + x' = writes'[1][2] % (Columns * Tile)
               /\ t'.cy * Fine + t'.fy = writes'[2][2] % (Rows * Fine)
    <3>1. writes'[1] = writes[1] /\ writes'[2][2] = byte /\ One(writes, 5)
      BY <2>1, <2>8, Zenon
    <3>2. w /\ t.cx * Tile + x = writes[1][2] % (Columns * Tile)
      BY <3>1 DEF Pairing, Halfway
    <3>3. t'.cx = t.cx /\ x' = x /\ t'.cy = (byte \div Fine) % Rows /\ t'.fy = byte % Fine
      BY <1>3, <3>2
    <3>. QED
      BY <3>1, <3>2, <3>3, Position
  <2>. QED
    BY <2>7, <2>8
<1>. QED
  BY <1>2, <1>4, <1>5

LEMMA AddressPairs ==
  ASSUME Pairing, NEW byte, byte \in (IF w THEN Lows ELSE Highs), WriteAddress(byte)
  PROVE  /\ Halfway'
         /\ Len(writes') > Len(writes) /\ Two(writes', 6, 6) =>
              Number(v') = (writes'[1][2] * LowSpan + writes'[2][2]) % Span
         /\ Len(writes') = 4 /\ Len(writes') > Len(writes) /\ writes'[1][1] = 6
              /\ writes'[2][1] = 5 /\ writes'[3][1] = 5 =>
              /\ v'.fy = writes'[2][2] % Fine /\ x' = writes'[3][2] % Tile
              /\ v'.cx + Columns * (v'.cy % LowRows) = writes'[4][2]
              /\ v'.cy \div LowRows = ((writes'[2][2] \div Fine) % Rows) \div LowRows
              /\ v'.nth + 2 * v'.ntv = (writes'[1][2] \div (Rows \div LowRows)) % 4
<1>1. /\ writes' = Recorded(6, byte) /\ w' = ~w /\ w \in BOOLEAN /\ x' = x
      /\ t \in Address /\ Len(writes) \in Nat
  BY DEF WriteAddress, Pairing, ScrollTypes, ScrollTypeOK, Writes
<1>2. /\ byte \in Nat
      /\ ~w => t' = Fields(HighBits(byte) * LowSpan + (Number(t) % LowSpan)) /\ v' = v
      /\ w => t' = Lowered(t, byte) /\ v' = t' /\ byte \in 0 .. LowSpan - 1
  BY WriteAddressTypes DEF Pairing, ScrollTypes
<1>3. /\ writes' \in Writes /\ writes \in Writes
      /\ Len(writes') >= 4 \/ Extends(writes', writes, 6, byte)
      /\ Len(writes') > Len(writes) => Extends(writes', writes, 6, byte)
  <2>1. 6 \in Nat
    OBVIOUS
  <2>. QED
    BY <1>1, <1>2, <2>1, Recording DEF Pairing
<1>4. Halfway'
  <2>1. CASE Len(writes') >= 4
    BY <1>3, <2>1, NoRun
  <2>2. CASE Extends(writes', writes, 6, byte)
    <3>1. 5 # 6
      OBVIOUS
    <3>2. /\ ~One(writes', 5) /\ ~Two(writes', 6, 5) /\ ~Three(writes', 6, 5, 5)
          /\ Len(writes') # 0 /\ (Len(writes) = 0 => writes'[1][2] = byte)
          /\ One(writes', 6) => Len(writes) = 0
      <4>1. Shortened(writes', writes, 6, byte)
        BY <1>3, <2>2, Runs, Zenon
      <4>. QED
        BY <3>1, <4>1, Zenon DEF Shortened
    <3>3. ASSUME One(writes', 6) PROVE w' /\ Number(t') \div LowSpan = HighBits(writes'[1][2])
      <4>1. Len(writes) = 0 /\ writes'[1][2] = byte
        BY <3>2, <3>3
      <4>2. ~w
        BY <4>1 DEF Pairing, Halfway
      <4> DEFINE n == HighBits(byte) * LowSpan + (Number(t) % LowSpan)
      <4>3. n \in 0 .. Span - 1 /\ n \div LowSpan = HighBits(byte)
        BY <1>1, <1>2, FirstByte
      <4>4. t' = Fields(n)
        BY <1>2, <4>2
      <4> HIDE DEF n
      <4>5. Number(Fields(n)) = n
        BY <4>3, FieldsOf
      <4>6. Number(t') = n
        BY <4>4, <4>5 DEF Number
      <4>. QED
        BY <1>1, <4>1, <4>2, <4>3, <4>6
    <3>. QED
      BY <3>2, <3>3 DEF Halfway
  <2>. QED
    BY <1>3, <2>1, <2>2
<1>5. ASSUME w
      PROVE  /\ Number(v') = LowSpan * (Number(t) \div LowSpan) + byte
             /\ v'.cx + Columns * (v'.cy % LowRows) = byte
             /\ v'.cy \div LowRows = t.cy \div LowRows
             /\ v'.nth = t.nth /\ v'.ntv = t.ntv /\ v'.fy = t.fy
  <2> DEFINE b == Lowered(t, byte)
  <2>1. /\ Number(b) = LowSpan * (Number(t) \div LowSpan) + byte
        /\ b.cx + Columns * (b.cy % LowRows) = byte
        /\ b.cy \div LowRows = t.cy \div LowRows
        /\ b.nth = t.nth /\ b.ntv = t.ntv /\ b.fy = t.fy
    BY <1>1, <1>2, <1>5, SecondByte
  <2>2. v' = b
    BY <1>2, <1>5
  <2> HIDE DEF b
  <2>. QED
    BY <2>1, <2>2 DEF Number
<1>6. ASSUME Len(writes') > Len(writes), Two(writes', 6, 6)
      PROVE  Number(v') = (writes'[1][2] * LowSpan + writes'[2][2]) % Span
  <2>1. writes'[1] = writes[1] /\ writes'[2][2] = byte /\ One(writes, 6)
    <3>1. Shortened(writes', writes, 6, byte)
      BY <1>3, <1>6, Runs, Zenon
    <3>. QED
      BY <1>6, <3>1, Zenon DEF Shortened
  <2>2. w /\ Number(t) \div LowSpan = HighBits(writes[1][2])
    BY <2>1 DEF Pairing, Halfway
  <2>3. writes[1][2] \in Nat
    BY <1>3, <2>1, FirstEntry
  <2>4. LowSpan * HighBits(writes[1][2]) + byte = (writes[1][2] * LowSpan + byte) % Span
    BY <1>2, <2>2, <2>3, BothBytes
  <2>. QED
    BY <1>5, <2>1, <2>2, <2>4
<1>7. ASSUME Len(writes') = 4, Len(writes') > Len(writes), writes'[1][1] = 6,
             writes'[2][1] = 5, writes'[3][1] = 5
      PROVE  /\ v'.fy = writes'[2][2] % Fine /\ x' = writes'[3][2] % Tile
             /\ v'.cx + Columns * (v'.cy % LowRows) = writes'[4][2]
             /\ v'.cy \div LowRows = ((writes'[2][2] \div Fine) % Rows) \div LowRows
             /\ v'.nth + 2 * v'.ntv = (writes'[1][2] \div (Rows \div LowRows)) % 4
  <2>1. /\ writes'[1] = writes[1] /\ writes'[2] = writes[2]
        /\ writes'[3] = writes[3] /\ writes'[4][2] = byte /\ Three(writes, 6, 5, 5)
    <3>1. Shortened(writes', writes, 6, byte)
      BY <1>3, <1>7, Runs, Zenon
    <3>. QED
      BY <1>7, <3>1, Zenon DEF Shortened
  <2>2. /\ w /\ t.nth + 2 * t.ntv = (writes[1][2] \div (Rows \div LowRows)) % 4
        /\ t.fy = writes[2][2] % Fine /\ t.cy = (writes[2][2] \div Fine) % Rows
        /\ x = writes[3][2] % Tile
    BY <2>1 DEF Pairing, Halfway
  <2>. QED
    BY <1>1, <1>5, <2>1, <2>2
<1>. QED
  BY <1>4, <1>6, <1>7

\* A step that is no write of $2005 or $2006.
LEMMA OtherPairs ==
  ASSUME Pairing
  PROVE  /\ UNCHANGED <<writes, t, x, w>> =>
              writes' \in Writes /\ Halfway' /\ ~(Len(writes') > Len(writes))
         /\ writes' = <<>> /\ ~w' =>
              writes' \in Writes /\ Halfway' /\ ~(Len(writes') > Len(writes))
<1>1. ASSUME UNCHANGED <<writes, t, x, w>>
      PROVE  writes' \in Writes /\ Halfway' /\ ~(Len(writes') > Len(writes))
  <2>1. Halfway' /\ writes' \in Writes
    BY <1>1 DEF Pairing, Halfway, Number
  <2>2. ~(Len(writes') > Len(writes))
    <3>1. PICK n \in Nat : n = Len(writes)
      BY DEF Pairing, Writes
    <3>2. Len(writes') = n
      BY <1>1, <3>1
    <3>. QED
      BY <3>1, <3>2
  <2>. QED
    BY <2>1, <2>2
<1>2. ASSUME writes' = <<>>, ~w'
      PROVE  writes' \in Writes /\ Halfway' /\ ~(Len(writes') > Len(writes))
  <2>1. Len(writes') = 0 /\ writes' \in Writes
    BY <1>2 DEF Writes
  <2>2. \A p, q, r : ~One(writes', p) /\ ~Two(writes', p, q) /\ ~Three(writes', p, q, r)
    BY <2>1, LongRuns
  <2>3. Halfway'
    BY <1>2, <2>2 DEF Halfway
  <2>4. PICK n \in Nat : n = Len(writes)
    BY DEF Pairing, Writes
  <2>. QED
    BY <2>1, <2>3, <2>4
<1>. QED
  BY <1>1, <1>2

LEMMA ControlPairs ==
  ASSUME Pairing, writes' = (IF writes = <<>> THEN writes ELSE Recorded(0, 0)), UNCHANGED <<w, x>>
  PROVE  /\ writes' \in Writes /\ Halfway'
         /\ Len(writes') > Len(writes) =>
              ~Two(writes', 5, 5) /\ ~Two(writes', 6, 6)
                /\ ~(Len(writes') = 4 /\ writes'[4][1] = 6)
<1>1. CASE writes = <<>>
  <2>1. Len(writes) = 0 /\ writes \in Writes /\ writes' = writes
    BY <1>1 DEF Pairing
  <2>2. ~w'
    BY <2>1 DEF Pairing, Halfway
  <2>. QED
    BY <1>1, <2>1, <2>2, OtherPairs
<1>2. CASE writes # <<>>
  <2>1. 0 \in Nat /\ writes' = Recorded(0, 0) /\ 0 # 5 /\ 0 # 6
    BY <1>2
  <2>2. /\ writes' \in Writes /\ writes \in Writes
        /\ Len(writes') >= 4 \/ Extends(writes', writes, 0, 0)
        /\ Len(writes') > Len(writes) => Extends(writes', writes, 0, 0)
    BY <2>1, Recording DEF Pairing
  <2>3. Extends(writes', writes, 0, 0) => Shortened(writes', writes, 0, 0)
    BY <2>2, Runs, Zenon
  <2>4. CASE Len(writes') >= 4
    <3>1. Halfway' /\ ~Two(writes', 5, 5) /\ ~Two(writes', 6, 6)
      BY <2>2, <2>4, LongRuns, NoRun
    <3>2. ASSUME Len(writes') > Len(writes), Len(writes') = 4 PROVE writes'[4][1] # 6
      <4>1. writes'[Len(writes')][1] = 0
        BY <2>2, <3>2 DEF Extends
      <4>. QED
        BY <2>1, <3>2, <4>1
    <3>. QED
      BY <2>2, <3>1, <3>2
  <2>5. CASE ~(Len(writes') >= 4)
    <3>1. Shortened(writes', writes, 0, 0)
      BY <2>2, <2>3, <2>5
    <3>2. /\ ~One(writes', 5) /\ ~One(writes', 6) /\ ~Two(writes', 6, 5)
          /\ ~Two(writes', 5, 5) /\ ~Two(writes', 6, 6)
          /\ ~Three(writes', 6, 5, 5) /\ Len(writes') # 0
      BY <2>1, <3>1, Zenon DEF Shortened
    <3>3. Halfway'
      BY <3>2 DEF Halfway
    <3>4. Len(writes') # 4
      <4>1. SUFFICES ASSUME Len(writes') = 4 PROVE FALSE
        OBVIOUS
      <4>2. 4 >= 4
        OBVIOUS
      <4>3. Len(writes') >= 4
        BY <4>1, <4>2, Zenon
      <4>. QED
        BY <2>5, <4>3
    <3>. QED
      BY <2>2, <3>2, <3>3, <3>4
  <2>. QED
    BY <2>4, <2>5
<1>. QED
  BY <1>1, <1>2

\* What PairLands says of a step.
Lands ==
  Len(writes') > Len(writes) =>
    /\ Two(writes', 5, 5) =>
         /\ t'.cx * Tile + x' = writes'[1][2] % (Columns * Tile)
         /\ t'.cy * Fine + t'.fy = writes'[2][2] % (Rows * Fine)
    /\ Two(writes', 6, 6) =>
         Number(v') = (writes'[1][2] * LowSpan + writes'[2][2]) % Span
    /\ Len(writes') = 4 /\ writes'[1][1] = 6 /\ writes'[2][1] = 5 /\ writes'[3][1] = 5
         /\ writes'[4][1] = 6 =>
         /\ v'.fy = writes'[2][2] % Fine /\ x' = writes'[3][2] % Tile
         /\ v'.cx + Columns * (v'.cy % LowRows) = writes'[4][2]
         /\ v'.cy \div LowRows = ((writes'[2][2] \div Fine) % Rows) \div LowRows
         /\ v'.nth + 2 * v'.ntv = (writes'[1][2] \div (Rows \div LowRows)) % 4

LEMMA StepPairs == Pairing /\ [Next]_vars => Pairing' /\ Lands
<1> SUFFICES ASSUME Pairing, [Next]_vars PROVE Pairing' /\ Lands
  OBVIOUS
<1>0. ScrollTypes'
  BY StepTypes DEF Pairing
<1>1. writes' \in Writes /\ Halfway' /\ ~(Len(writes') > Len(writes)) => Pairing' /\ Lands
  BY <1>0 DEF Pairing, Lands
<1>2. CASE Dot
  <2>1. UNCHANGED <<writes, t, x, w>>
    BY <1>2 DEF Dot, DotAt
  <2>. QED
    BY <1>1, <2>1, OtherPairs
<1>3. ASSUME NEW n \in {0, 1}, NEW d \in {0, 1}, WriteControl(n, n, d = 1) PROVE Pairing' /\ Lands
  <2>1. writes' = (IF writes = <<>> THEN writes ELSE Recorded(0, 0)) /\ UNCHANGED <<w, x>>
    BY <1>3 DEF WriteControl
  <2>2. /\ writes' \in Writes /\ Halfway'
        /\ Len(writes') > Len(writes) =>
             ~Two(writes', 5, 5) /\ ~Two(writes', 6, 6)
               /\ ~(Len(writes') = 4 /\ writes'[4][1] = 6)
    BY <2>1, ControlPairs
  <2>. QED
    BY <1>0, <2>2 DEF Pairing, Lands
<1>4. ASSUME NEW m \in Masks, WriteMask(m) PROVE Pairing' /\ Lands
  <2>1. UNCHANGED <<writes, t, x, w>>
    BY <1>4 DEF WriteMask
  <2>. QED
    BY <1>1, <2>1, OtherPairs
<1>5. ASSUME NEW b \in Scrolls, WriteScroll(b) PROVE Pairing' /\ Lands
  <2>1. b \in Nat
    BY ScrollAssumption DEF ScrollAssumption
  <2>2. /\ Halfway'
        /\ Len(writes') > Len(writes) /\ Two(writes', 5, 5) =>
             /\ t'.cx * Tile + x' = writes'[1][2] % (Columns * Tile)
             /\ t'.cy * Fine + t'.fy = writes'[2][2] % (Rows * Fine)
    BY <1>5, <2>1, ScrollPairs
  <2>3. /\ writes' \in Writes /\ writes \in Writes
        /\ Len(writes') > Len(writes) => Extends(writes', writes, 5, b)
    <3>1. 5 \in Nat /\ writes' = Recorded(5, b)
      BY <1>5 DEF WriteScroll
    <3>. QED
      BY <2>1, <3>1, Recording DEF Pairing
  <2>4. ASSUME Len(writes') > Len(writes)
        PROVE  ~Two(writes', 6, 6) /\ ~(Len(writes') = 4 /\ writes'[4][1] = 6)
    <3>1. Shortened(writes', writes, 5, b)
      BY <2>3, <2>4, Runs, Zenon
    <3>2. ~Two(writes', 6, 6)
      <4>1. 5 # 6
        OBVIOUS
      <4>. QED
        BY <3>1, <4>1, Zenon DEF Shortened
    <3>3. writes'[Len(writes')][1] = 5
      BY <2>3, <2>4 DEF Extends
    <3>. QED
      BY <3>2, <3>3
  <2>. QED
    BY <1>0, <2>2, <2>3, <2>4 DEF Pairing, Lands
<1>6. ASSUME NEW b \in (IF w THEN Lows ELSE Highs), WriteAddress(b) PROVE Pairing' /\ Lands
  <2>1. /\ Halfway'
        /\ Len(writes') > Len(writes) /\ Two(writes', 6, 6) =>
             Number(v') = (writes'[1][2] * LowSpan + writes'[2][2]) % Span
        /\ Len(writes') = 4 /\ Len(writes') > Len(writes) /\ writes'[1][1] = 6
             /\ writes'[2][1] = 5 /\ writes'[3][1] = 5 =>
             /\ v'.fy = writes'[2][2] % Fine /\ x' = writes'[3][2] % Tile
             /\ v'.cx + Columns * (v'.cy % LowRows) = writes'[4][2]
             /\ v'.cy \div LowRows = ((writes'[2][2] \div Fine) % Rows) \div LowRows
             /\ v'.nth + 2 * v'.ntv = (writes'[1][2] \div (Rows \div LowRows)) % 4
    BY <1>6, AddressPairs
  <2>2. /\ writes' \in Writes /\ writes \in Writes
        /\ Len(writes') > Len(writes) => Extends(writes', writes, 6, b)
    <3>1. 6 \in Nat /\ writes' = Recorded(6, b) /\ b \in Nat
      BY <1>6, WriteAddressTypes DEF WriteAddress, Pairing, ScrollTypes
    <3>. QED
      BY <3>1, Recording DEF Pairing
  <2>3. ASSUME Len(writes') > Len(writes) PROVE ~Two(writes', 5, 5)
    <3>1. Shortened(writes', writes, 6, b)
      BY <2>2, <2>3, Runs, Zenon
    <3>2. 5 # 6
      OBVIOUS
    <3>. QED
      BY <3>1, <3>2, Zenon DEF Shortened
  <2>. QED
    BY <1>0, <2>1, <2>2, <2>3 DEF Pairing, Lands
<1>7. CASE ReadStatus
  <2>1. writes' = <<>> /\ ~w'
    BY <1>7 DEF ReadStatus, ToggleCleared
  <2>. QED
    BY <1>1, <2>1, OtherPairs
<1>8. CASE ReadData
  <2>1. UNCHANGED <<writes, t, x, w>>
    BY <1>8 DEF ReadData
  <2>. QED
    BY <1>1, <2>1, OtherPairs
<1>9. CASE WriteData
  <2>1. UNCHANGED <<writes, t, x, w>>
    BY <1>9 DEF WriteData
  <2>. QED
    BY <1>1, <2>1, OtherPairs
<1>10. CASE Reset
  <2>1. writes' = <<>> /\ ~w'
    BY <1>10 DEF Reset
  <2>. QED
    BY <1>1, <2>1, OtherPairs
<1>11. CASE UNCHANGED vars
  <2>1. UNCHANGED <<writes, t, x, w>>
    BY <1>11 DEF vars
  <2>. QED
    BY <1>1, <2>1, OtherPairs
<1>. QED
  BY <1>2, <1>3, <1>4, <1>5, <1>6, <1>7, <1>8, <1>9, <1>10, <1>11 DEF Next, Access

\* A pair of writes that follows a read of $2002 sets what it is meant to.
THEOREM PairsLand == Spec => PairLands
<1>1. Init => Pairing
  <2>1. Init => writes = <<>> /\ w = FALSE
    BY DEF Init
  <2>2. ASSUME Init PROVE writes \in Writes /\ Halfway
    <3>1. Len(writes) = 0 /\ writes \in Writes
      BY <2>1, <2>2 DEF Writes
    <3>2. \A p, q, r : ~One(writes, p) /\ ~Two(writes, p, q) /\ ~Three(writes, p, q, r)
      BY <3>1, LongRuns
    <3>. QED
      BY <2>1, <2>2, <3>1, <3>2 DEF Halfway
  <2>. QED
    BY <2>2, InitTypes DEF Pairing
<1>2. Pairing /\ Pairing' /\ [Next]_vars => Landed
  <2> SUFFICES ASSUME Pairing, Pairing', [Next]_vars PROVE Landed
    OBVIOUS
  <2>1. Lands
    BY StepPairs
  <2>2. writes' \in Writes
    BY DEF Pairing
  <2>3. /\ Paired(<<5, 5>>) => Len(writes') > Len(writes) /\ Two(writes', 5, 5)
        /\ Paired(<<6, 6>>) => Len(writes') > Len(writes) /\ Two(writes', 6, 6)
        /\ Paired(<<6, 5, 5, 6>>) =>
             Len(writes') > Len(writes) /\ Len(writes') = 4 /\ writes'[1][1] = 6
               /\ writes'[2][1] = 5 /\ writes'[3][1] = 5 /\ writes'[4][1] = 6
    BY <2>2, RegistersOf DEF Paired
  <2>. QED
    BY <2>1, <2>3, Zenon DEF Lands, Landed
<1>3. Pairing /\ [Next]_vars => Pairing'
  BY StepPairs
<1>. QED
  BY <1>1, <1>2, <1>3, PTL DEF Spec, PairLands

-----------------------------------------------------------------------------
(* Columns and rows of the plane. *)

LEMMA AddMultiple ==
  ASSUME NEW a \in Nat \ {0}, NEW k \in {0, 1}, NEW m \in Nat
  PROVE  (k * a + m) % a = m % a /\ (k * a + m) \div a = k + (m \div a)
<1> DEFINE q == m \div a
           r == m % a
<1>1. q \in Nat /\ r \in 0 .. a - 1 /\ m = a * q + r
  BY Division
<1> HIDE DEF q, r
<1>2. a * q \in Int /\ a * (k + q) = k * a + a * q
  BY <1>1, Z3
<1>3. (a * (k + q) + r) \div a = k + q /\ (a * (k + q) + r) % a = r
  <2>1. k + q \in Nat
    BY <1>1
  <2> DEFINE p == k + q
  <2> HIDE DEF p
  <2>2. p \in Nat
    BY <2>1 DEF p
  <2>3. (a * p + r) \div a = p /\ (a * p + r) % a = r
    BY <1>1, <2>2, DivisionUnique
  <2>. QED
    BY <2>3 DEF p
<1>4. k * a + m = a * (k + q) + r
  BY <1>1, <1>2
<1>. QED
  BY <1>3, <1>4 DEF q, r

\* A quotient below two.
LEMMA SmallDivision ==
  ASSUME NEW a \in Nat \ {0}, NEW n \in 0 .. 2 * a - 1
  PROVE  /\ n < a => n \div a = 0 /\ n % a = n
         /\ n >= a => n \div a = 1 /\ n % a = n - a
<1>1. ASSUME n < a PROVE n \div a = 0 /\ n % a = n
  <2>1. (a * 0 + n) \div a = 0 /\ (a * 0 + n) % a = n
    BY <1>1, DivisionUnique
  <2>2. a * 0 + n = n
    BY Z3
  <2>. QED
    BY <2>1, <2>2
<1>2. ASSUME n >= a PROVE n \div a = 1 /\ n % a = n - a
  <2>1. n - a \in 0 .. a - 1
    BY <1>2
  <2> DEFINE r == n - a
  <2> HIDE DEF r
  <2>2. r \in 0 .. a - 1
    BY <2>1 DEF r
  <2>3. (a * 1 + r) \div a = 1 /\ (a * 1 + r) % a = r
    BY <2>2, DivisionUnique
  <2>4. a * 1 + r = n
    BY DEF r
  <2>. QED
    BY <2>3, <2>4 DEF r
<1>. QED
  BY <1>1, <1>2

\* The steps of a column.
LEMMA AlongForm ==
  ASSUME NEW a \in Address, NEW k \in Nat
  PROVE  /\ Along(a, k).cx = (a.cx + k) % Columns
         /\ Along(a, k).nth = (a.nth + ((a.cx + k) \div Columns)) % 2
         /\ Along(a, k).cx \in 0 .. Columns - 1 /\ Along(a, k).nth \in 0 .. 1
<1>1. Columns \in Nat \ {0} /\ a.cx \in 0 .. Columns - 1 /\ a.nth \in {0, 1}
  BY AddressType, ScrollSizes
<1> DEFINE m == a.cx + k
<1>2. m \in Nat
  BY <1>1
<1>3. a.nth * Columns \in Int
  BY <1>1
<1>4. a.nth * Columns + a.cx + k = a.nth * Columns + m
  BY <1>1, <1>2, <1>3
<1> HIDE DEF m
<1>5. (a.nth * Columns + m) \div Columns = a.nth + (m \div Columns)
  BY <1>1, <1>2, AddMultiple
<1>6. (m % Columns) \in 0 .. Columns - 1 /\ m \div Columns \in Nat
  BY <1>1, <1>2, Division
<1>7. ((a.nth + (m \div Columns)) % 2) \in 0 .. 1
  BY <1>1, <1>6
<1>8. Along(a, k).cx = m % Columns
  BY DEF Along, m
<1>9. Along(a, k).nth = ((a.nth * Columns + m) \div Columns) % 2
  BY <1>4 DEF Along
<1>10. Along(a, k).nth = (a.nth + (m \div Columns)) % 2
  BY <1>5, <1>9
<1>. QED
  BY <1>6, <1>7, <1>8, <1>10 DEF m

LEMMA AlongNext ==
  ASSUME NEW a \in Address, NEW k \in Nat, NEW u \in Address,
         u.cx = Along(a, k).cx, u.nth = Along(a, k).nth
  PROVE  NextColumn(u).cx = Along(a, k + 1).cx /\ NextColumn(u).nth = Along(a, k + 1).nth
<1> DEFINE m == a.cx + k
           q == m \div Columns
           r == m % Columns
<1>1. Columns \in Nat \ {0} /\ m \in Nat /\ a.nth \in {0, 1} /\ k + 1 \in Nat
  BY AddressType, ScrollSizes
<1>2. u.cx = r /\ u.nth = (a.nth + q) % 2
  BY AlongForm
<1>3. Along(a, k + 1).cx = (a.cx + (k + 1)) % Columns
      /\ Along(a, k + 1).nth = (a.nth + ((a.cx + (k + 1)) \div Columns)) % 2
  BY <1>1, AlongForm
<1>4. a.cx + (k + 1) = m + 1
  BY <1>1, AddressType
<1> HIDE DEF m
<1>5. q \in Nat /\ r \in 0 .. Columns - 1 /\ m = Columns * q + r
  BY <1>1, Division
<1> HIDE DEF q, r
<1>6. Columns * q \in Int /\ Columns * (q + 1) = Columns * q + Columns
  BY <1>1, <1>5, Z3
<1>7. CASE r = Columns - 1
  <2>1. NextColumn(u).cx = 0 /\ NextColumn(u).nth = 1 - u.nth
    BY <1>2, <1>7, ColumnStep
  <2> DEFINE p == q + 1
  <2>2. p \in Nat /\ 0 \in 0 .. Columns - 1
    BY <1>1, <1>5
  <2>3. m + 1 = Columns * p + 0
    BY <1>1, <1>5, <1>6, <1>7
  <2> HIDE DEF p
  <2>4. (Columns * p + 0) \div Columns = p /\ (Columns * p + 0) % Columns = 0
    BY <1>1, <2>2, DivisionUnique
  <2>5. 1 - ((a.nth + q) % 2) = (a.nth + p) % 2
    BY <1>1, <1>5 DEF p
  <2>. QED
    BY <1>2, <1>3, <1>4, <2>1, <2>3, <2>4, <2>5
<1>8. CASE r # Columns - 1
  <2>1. NextColumn(u).cx = r + 1 /\ NextColumn(u).nth = u.nth
    BY <1>2, <1>8, ColumnStep
  <2> DEFINE p == r + 1
  <2>2. p \in 0 .. Columns - 1
    BY <1>1, <1>5, <1>8
  <2>3. m + 1 = Columns * q + p
    BY <1>1, <1>5, <1>6
  <2> HIDE DEF p
  <2>4. (Columns * q + p) \div Columns = q /\ (Columns * q + p) % Columns = p
    BY <1>1, <1>5, <2>2, DivisionUnique
  <2>. QED
    BY <1>2, <1>3, <1>4, <2>1, <2>3, <2>4 DEF p
<1>. QED
  BY <1>7, <1>8

LEMMA AlongZero ==
  ASSUME NEW a \in Address
  PROVE  Along(a, 0).cx = a.cx /\ Along(a, 0).nth = a.nth
<1>1. Columns \in Nat \ {0} /\ a.cx \in 0 .. Columns - 1 /\ a.nth \in {0, 1} /\ a.cx + 0 = a.cx
  BY AddressType, ScrollSizes
<1>2. a.cx \div Columns = 0 /\ a.cx % Columns = a.cx
  <2>1. a.cx \in 0 .. 2 * Columns - 1 /\ a.cx < Columns
    BY <1>1
  <2>. QED
    BY <1>1, <2>1, SmallDivision
<1>3. (a.nth + 0) % 2 = a.nth
  BY <1>1
<1>. QED
  BY <1>1, <1>2, <1>3, AlongForm

\* A screen column is a column of the strip.
LEMMA ColumnForm ==
  ASSUME NEW a \in Address, NEW f \in Nat, NEW c \in Nat
  PROVE  /\ ColumnAt(a, f, c).nth = Along(a, (f + c) \div Tile).nth
         /\ ColumnAt(a, f, c).cx = Along(a, (f + c) \div Tile).cx
         /\ ColumnAt(a, f, c).col = (f + c) % Tile
<1> DEFINE k == (f + c) \div Tile
           g == a.nth * Columns + a.cx
           all == g * Tile + f + c
<1>1. Columns \in Nat \ {0} /\ a.cx \in 0 .. Columns - 1 /\ a.nth \in {0, 1} /\ k \in Nat
  BY AddressType, ScrollSizes DEF Tile
<1>2. g \in Nat
  BY <1>1
<1> HIDE DEF g
<1>3. all \in Nat /\ all \div Tile = g + k /\ all % Tile = (f + c) % Tile
  BY <1>2 DEF Tile
<1>4. all \div (Columns * Tile) = (all \div Tile) \div Columns
  <2>1. Tile \in Nat \ {0} /\ Columns * Tile = Tile * Columns
    BY <1>1 DEF Tile
  <2> HIDE DEF all
  <2>2. all \div (Tile * Columns) = (all \div Tile) \div Columns
    BY <1>1, <1>3, <2>1, DivisionByProduct
  <2>. QED
    BY <2>1, <2>2
<1>5. g + k = a.nth * Columns + (a.cx + k)
  BY <1>1 DEF g
<1>6. (g + k) % Columns = (a.cx + k) % Columns
      /\ (g + k) \div Columns = a.nth + ((a.cx + k) \div Columns)
  <2> DEFINE m == a.cx + k
  <2>1. m \in Nat
    BY <1>1
  <2> HIDE DEF m
  <2>2. (a.nth * Columns + m) % Columns = m % Columns
        /\ (a.nth * Columns + m) \div Columns = a.nth + (m \div Columns)
    BY <1>1, <2>1, AddMultiple
  <2>. QED
    BY <1>5, <2>2 DEF m
<1>7. ColumnAt(a, f, c) = [nth |-> (all \div (Columns * Tile)) % 2,
                           cx |-> (all \div Tile) % Columns, col |-> all % Tile]
  BY DEF ColumnAt, g
<1> HIDE DEF all, k
<1>8. Along(a, k).cx = (a.cx + k) % Columns
      /\ Along(a, k).nth = (a.nth + ((a.cx + k) \div Columns)) % 2
  BY <1>1, AlongForm
<1>9. ColumnAt(a, f, c).nth = Along(a, k).nth /\ ColumnAt(a, f, c).cx = Along(a, k).cx
      /\ ColumnAt(a, f, c).col = (f + c) % Tile
  BY <1>3, <1>4, <1>6, <1>7, <1>8
<1>. QED
  BY <1>9 DEF k

\* Lines of the plane by number.
LineNumber(a) == a.cy * Fine + a.fy
Height == Rows * Fine

LEMMA Heights == /\ Fine \in Nat \ {0} /\ Lines \in Nat \ {0} /\ Height \in Nat /\ Lines + Fine <= Height
<1>1. Fine \in {2, 4, 8} /\ LastRow \in Nat /\ Rows \in Nat /\ LastRow + 1 < Rows
      /\ Lines = (LastRow + 1) * Fine /\ Lines \in Nat \ {0}
  BY ScrollSizes
<1>2. Height = Rows * Fine
  BY DEF Height
<1>3. (LastRow + 1) * Fine + Fine <= Rows * Fine /\ Rows * Fine \in Nat
  <2>1. Fine = 2 \/ Fine = 4 \/ Fine = 8
    BY <1>1
  <2>. QED
    BY <1>1, <2>1
<1>. QED
  BY <1>1, <1>2, <1>3

LEMMA LineNumbers ==
  ASSUME NEW a \in Address
  PROVE  /\ LineNumber(a) \in 0 .. Height - 1
         /\ LineNumber(a) \div Fine = a.cy /\ LineNumber(a) % Fine = a.fy
         /\ a.cy <= LastRow <=> LineNumber(a) < Lines
         /\ (a.cy = LastRow /\ a.fy = Fine - 1) <=> LineNumber(a) = Lines - 1
         /\ (a.cy = Rows - 1 /\ a.fy = Fine - 1) <=> LineNumber(a) = Height - 1
<1>1. /\ Fine \in {2, 4, 8} /\ LastRow \in Nat /\ Rows \in Nat /\ LastRow + 1 < Rows
      /\ Lines = (LastRow + 1) * Fine /\ a.cy \in 0 .. Rows - 1 /\ a.fy \in 0 .. Fine - 1
  BY ScrollSizes, AddressType
<1> DEFINE y == a.cy
           f == a.fy
           n == LineNumber(a)
<1>2. n = y * Fine + f /\ Height = Rows * Fine
  BY DEF LineNumber, Height
<1>3. y \in 0 .. Rows - 1 /\ f \in 0 .. Fine - 1
  BY <1>1
<1> HIDE DEF y, f, n
<1>4. /\ n \in 0 .. Height - 1 /\ n \div Fine = y /\ n % Fine = f
      /\ y <= LastRow <=> n < Lines
      /\ (y = LastRow /\ f = Fine - 1) <=> n = Lines - 1
      /\ (y = Rows - 1 /\ f = Fine - 1) <=> n = Height - 1
  <2>1. CASE Fine = 2
    BY <1>1, <1>2, <1>3, <2>1
  <2>2. CASE Fine = 4
    BY <1>1, <1>2, <1>3, <2>2
  <2>3. CASE Fine = 8
    BY <1>1, <1>2, <1>3, <2>3
  <2>. QED
    BY <1>1, <2>1, <2>2, <2>3
<1>. QED
  BY <1>4 DEF y, f, n

\* The line below.
LEMMA LineBelow ==
  ASSUME NEW a \in Address
  PROVE  /\ LineNumber(NextLine(a)) =
              IF LineNumber(a) = Lines - 1 \/ LineNumber(a) = Height - 1 THEN 0
              ELSE LineNumber(a) + 1
         /\ NextLine(a).ntv = IF LineNumber(a) = Lines - 1 THEN 1 - a.ntv ELSE a.ntv
         /\ NextLine(a).cx = a.cx /\ NextLine(a).nth = a.nth
<1>1. /\ Fine \in Nat \ {0} /\ Lines \in Nat \ {0} /\ Height \in Nat /\ Lines + Fine <= Height
      /\ a.cy \in Nat /\ a.fy \in 0 .. Fine - 1 /\ a.cy * Fine \in Nat
      /\ (a.cy + 1) * Fine = a.cy * Fine + Fine /\ 0 * Fine = 0
  <2>1. Fine \in Nat \ {0} /\ Lines \in Nat \ {0} /\ Height \in Nat /\ Lines + Fine <= Height
    BY Heights
  <2>2. a.cy \in Nat /\ a.fy \in 0 .. Fine - 1
    BY AddressType, ScrollSizes
  <2> DEFINE y == a.cy
  <2>3. y \in Nat
    BY <2>2
  <2> HIDE DEF y
  <2>4. y * Fine \in Nat /\ (y + 1) * Fine = y * Fine + Fine /\ 0 * Fine = 0
    BY <2>1, <2>3, Z3
  <2>. QED
    BY <2>1, <2>2, <2>4 DEF y
<1>2. /\ (a.cy = LastRow /\ a.fy = Fine - 1) <=> LineNumber(a) = Lines - 1
      /\ (a.cy = Rows - 1 /\ a.fy = Fine - 1) <=> LineNumber(a) = Height - 1
      /\ LineNumber(a) = a.cy * Fine + a.fy
  BY LineNumbers DEF LineNumber
<1> DEFINE b == NextLine(a)
<1>3. LineNumber(b) = b.cy * Fine + b.fy
  BY DEF LineNumber
<1>4. CASE a.fy < Fine - 1
  <2>1. b = [cx |-> a.cx, cy |-> a.cy, nth |-> a.nth, ntv |-> a.ntv, fy |-> a.fy + 1]
    BY <1>4, LineStep
  <2>2. LineNumber(a) # Lines - 1 /\ LineNumber(a) # Height - 1
    BY <1>1, <1>2, <1>4
  <2> HIDE DEF b
  <2>3. LineNumber(b) = LineNumber(a) + 1
    BY <1>1, <1>2, <1>3, <2>1
  <2>4. b.ntv = a.ntv /\ b.cx = a.cx /\ b.nth = a.nth
    BY <2>1
  <2>. QED
    BY <2>2, <2>3, <2>4 DEF b
<1>5. CASE a.fy = Fine - 1 /\ a.cy = LastRow
  <2>1. b = [cx |-> a.cx, cy |-> 0, nth |-> a.nth, ntv |-> 1 - a.ntv, fy |-> 0]
    BY <1>1, <1>5, LineStep
  <2>2. LineNumber(a) = Lines - 1
    BY <1>2, <1>5
  <2> HIDE DEF b
  <2>3. LineNumber(b) = 0
    BY <1>1, <1>3, <2>1
  <2>4. b.ntv = 1 - a.ntv /\ b.cx = a.cx /\ b.nth = a.nth
    BY <2>1
  <2>. QED
    BY <2>2, <2>3, <2>4 DEF b
<1>6. CASE a.fy = Fine - 1 /\ a.cy # LastRow /\ a.cy = Rows - 1
  <2>1. b = [cx |-> a.cx, cy |-> 0, nth |-> a.nth, ntv |-> a.ntv, fy |-> 0]
    BY <1>1, <1>6, LineStep
  <2>2. LineNumber(a) # Lines - 1 /\ LineNumber(a) = Height - 1
    BY <1>2, <1>6
  <2> HIDE DEF b
  <2>3. LineNumber(b) = 0
    BY <1>1, <1>3, <2>1
  <2>4. b.ntv = a.ntv /\ b.cx = a.cx /\ b.nth = a.nth
    BY <2>1
  <2>. QED
    BY <2>2, <2>3, <2>4 DEF b
<1>7. CASE a.fy = Fine - 1 /\ a.cy # LastRow /\ a.cy # Rows - 1
  <2>1. b = [cx |-> a.cx, cy |-> a.cy + 1, nth |-> a.nth, ntv |-> a.ntv, fy |-> 0]
    BY <1>1, <1>7, LineStep
  <2>2. LineNumber(a) # Lines - 1 /\ LineNumber(a) # Height - 1
    BY <1>2, <1>7
  <2> HIDE DEF b
  <2>3. LineNumber(b) = LineNumber(a) + 1
    BY <1>1, <1>2, <1>3, <1>7, <2>1
  <2>4. b.ntv = a.ntv /\ b.cx = a.cx /\ b.nth = a.nth
    BY <2>1
  <2>. QED
    BY <2>2, <2>3, <2>4 DEF b
<1>. QED
  BY <1>1, <1>4, <1>5, <1>6, <1>7

\* The line and the table that a line of the screen shows.
Wrapped(a, k) ==
  IF a.cy > LastRow THEN IF k >= Height THEN k - Height ELSE k
  ELSE IF k < Lines THEN k ELSE k - Lines
NumberAt(a, line) == Wrapped(a, LineNumber(a) + line)
TableAt(a, line) ==
  IF a.cy <= LastRow /\ LineNumber(a) + line >= Lines THEN 1 - a.ntv ELSE a.ntv

LEMMA RowForm ==
  ASSUME NEW a \in Address, NEW line \in 0 .. Lines
  PROVE  RowAt(a, line) = [ntv |-> TableAt(a, line), cy |-> NumberAt(a, line) \div Fine,
                           fy |-> NumberAt(a, line) % Fine]
<1> DEFINE n == LineNumber(a) + line
           past == a.cy > LastRow /\ n >= Height
           m == IF past THEN n - Height ELSE n
           wraps == IF a.cy > LastRow /\ ~past THEN 0 ELSE m \div Lines
           row == IF a.cy > LastRow /\ ~past THEN m ELSE m % Lines
<1>1. RowAt(a, line) = [ntv |-> (a.ntv + wraps) % 2, cy |-> row \div Fine, fy |-> row % Fine]
  BY DEF RowAt, LineNumber, Height
<1>2. /\ Lines \in Nat \ {0} /\ Height \in Nat /\ Lines < Height
      /\ LineNumber(a) \in 0 .. Height - 1 /\ (a.cy <= LastRow <=> LineNumber(a) < Lines)
      /\ a.ntv \in {0, 1} /\ a.cy \in Nat /\ LastRow \in Nat
  BY Heights, LineNumbers, AddressType, ScrollSizes
<1>3. row = NumberAt(a, line) /\ (a.ntv + wraps) % 2 = TableAt(a, line)
  <2>1. CASE a.cy > LastRow /\ n >= Height
    <3>1. m = n - Height /\ m \in 0 .. 2 * Lines - 1 /\ m < Lines
      BY <1>2, <2>1
    <3> HIDE DEF m
    <3>2. m \div Lines = 0 /\ m % Lines = m
      BY <1>2, <3>1, SmallDivision
    <3>3. row = m /\ wraps = 0
      BY <2>1, <3>2
    <3>4. NumberAt(a, line) = n - Height
      BY <2>1 DEF NumberAt, Wrapped
    <3>5. TableAt(a, line) = a.ntv
      BY <1>2, <2>1 DEF TableAt
    <3> HIDE DEF wraps, row
    <3>. QED
      BY <1>2, <3>1, <3>3, <3>4, <3>5
  <2>2. CASE a.cy > LastRow /\ ~(n >= Height)
    <3>1. row = n /\ wraps = 0
      BY <2>2
    <3>2. NumberAt(a, line) = n
      BY <2>2 DEF NumberAt, Wrapped
    <3>3. TableAt(a, line) = a.ntv
      BY <1>2, <2>2 DEF TableAt
    <3> HIDE DEF wraps, row
    <3>. QED
      BY <1>2, <3>1, <3>2, <3>3
  <2>3. CASE ~(a.cy > LastRow)
    <3>1. m = n /\ m \in 0 .. 2 * Lines - 1 /\ a.cy <= LastRow /\ m \in Nat
      BY <1>2, <2>3
    <3> HIDE DEF m
    <3>2. /\ m < Lines => m \div Lines = 0 /\ m % Lines = m
          /\ m >= Lines => m \div Lines = 1 /\ m % Lines = m - Lines
      BY <1>2, <3>1, SmallDivision
    <3>3. row = m % Lines /\ wraps = m \div Lines
      BY <2>3
    <3>4. NumberAt(a, line) = IF m < Lines THEN m ELSE m - Lines
      BY <2>3, <3>1 DEF NumberAt, Wrapped
    <3>5. TableAt(a, line) = IF m >= Lines THEN 1 - a.ntv ELSE a.ntv
      BY <3>1 DEF TableAt
    <3> HIDE DEF wraps, row
    <3>6. CASE m < Lines
      BY <1>2, <3>1, <3>2, <3>3, <3>4, <3>5, <3>6
    <3>7. CASE m >= Lines
      BY <1>2, <3>1, <3>2, <3>3, <3>4, <3>5, <3>7
    <3>. QED
      BY <1>2, <3>1, <3>6, <3>7
  <2>. QED
    BY <2>1, <2>2, <2>3
<1> HIDE DEF row, wraps
<1>. QED
  BY <1>1, <1>3

LEMMA RowZero ==
  ASSUME NEW a \in Address
  PROVE  RowAt(a, 0) = RowOf(a)
<1>1. /\ Lines \in Nat \ {0} /\ Height \in Nat /\ 0 \in 0 .. Lines
      /\ LineNumber(a) \in 0 .. Height - 1 /\ (a.cy <= LastRow <=> LineNumber(a) < Lines)
      /\ LineNumber(a) \div Fine = a.cy /\ LineNumber(a) % Fine = a.fy
      /\ a.cy \in Nat /\ LastRow \in Nat
  BY Heights, LineNumbers, AddressType, ScrollSizes
<1>2. LineNumber(a) + 0 = LineNumber(a)
  BY <1>1
<1>3. NumberAt(a, 0) = LineNumber(a)
  BY <1>1, <1>2 DEF NumberAt, Wrapped
<1>4. TableAt(a, 0) = a.ntv
  BY <1>1, <1>2 DEF TableAt
<1>. QED
  BY <1>1, <1>3, <1>4, RowForm DEF RowOf

LEMMA WrappedForm ==
  ASSUME NEW a \in Address, NEW k \in Nat
  PROVE  Wrapped(a, k) = IF a.cy > LastRow THEN IF k >= Height THEN k - Height ELSE k
                         ELSE IF k < Lines THEN k ELSE k - Lines
  BY AddressType, ScrollSizes, Heights DEF Wrapped

\* The steps of a row.
LEMMA RowNext ==
  ASSUME NEW a \in Address, NEW line \in 0 .. Lines - 1, NEW u \in Address,
         RowOf(u) = RowAt(a, line)
  PROVE  RowOf(NextLine(u)) = RowAt(a, line + 1)
<1> DEFINE first == LineNumber(a)
           p == NumberAt(a, line)
           q == NumberAt(a, line + 1)
           b == NextLine(u)
<1>1. /\ Lines \in Nat \ {0} /\ Height \in Nat /\ Lines < Height /\ Fine \in Nat \ {0}
      /\ first \in 0 .. Height - 1 /\ (a.cy <= LastRow <=> first < Lines)
      /\ a.ntv \in {0, 1} /\ a.cy \in Nat /\ LastRow \in Nat
      /\ line \in 0 .. Lines /\ line + 1 \in 0 .. Lines
  BY Heights, LineNumbers, AddressType, ScrollSizes
<1>2. p = Wrapped(a, first + line) /\ q = Wrapped(a, first + (line + 1))
  BY DEF NumberAt
<1>3. \A k : TableAt(a, k) = IF a.cy <= LastRow /\ first + k >= Lines THEN 1 - a.ntv ELSE a.ntv
  BY Zenon DEF TableAt
<1> HIDE DEF p, q, first
<1>4. /\ p = IF a.cy > LastRow THEN IF first + line >= Height THEN first + line - Height ELSE first + line
             ELSE IF first + line < Lines THEN first + line ELSE first + line - Lines
      /\ q = IF a.cy > LastRow
             THEN IF first + (line + 1) >= Height THEN first + (line + 1) - Height ELSE first + (line + 1)
             ELSE IF first + (line + 1) < Lines THEN first + (line + 1) ELSE first + (line + 1) - Lines
  <2> DEFINE j == first + line
             k == first + (line + 1)
  <2>1. j \in Nat /\ k \in Nat
    BY <1>1
  <2>2. p = Wrapped(a, j) /\ q = Wrapped(a, k)
    BY <1>2
  <2> HIDE DEF j, k
  <2>3. /\ p = IF a.cy > LastRow THEN IF j >= Height THEN j - Height ELSE j
               ELSE IF j < Lines THEN j ELSE j - Lines
        /\ q = IF a.cy > LastRow THEN IF k >= Height THEN k - Height ELSE k
               ELSE IF k < Lines THEN k ELSE k - Lines
    BY <1>1, <2>1, <2>2, WrappedForm
  <2>. QED
    BY <1>1, <2>1, <2>3 DEF j, k
<1>5. /\ TableAt(a, line) = IF a.cy <= LastRow /\ first + line >= Lines THEN 1 - a.ntv ELSE a.ntv
      /\ TableAt(a, line + 1) =
           IF a.cy <= LastRow /\ first + (line + 1) >= Lines THEN 1 - a.ntv ELSE a.ntv
  <2> HIDE DEF first
  <2>. QED
    BY <1>3
<1> HIDE DEF first, p, q
<1>6. /\ q = IF p = Lines - 1 \/ p = Height - 1 THEN 0 ELSE p + 1
      /\ TableAt(a, line + 1) = IF p = Lines - 1 THEN 1 - TableAt(a, line) ELSE TableAt(a, line)
      /\ p \in Nat /\ q \in Nat
  <2>1. CASE a.cy > LastRow
    BY <1>1, <1>4, <1>5, <2>1
  <2>2. CASE ~(a.cy > LastRow)
    BY <1>1, <1>4, <1>5, <2>2
  <2>. QED
    BY <2>1, <2>2
<1>7. u.ntv = TableAt(a, line) /\ u.cy = p \div Fine /\ u.fy = p % Fine
  <2>1. RowOf(u) = [ntv |-> TableAt(a, line), cy |-> p \div Fine, fy |-> p % Fine]
    BY <1>1, RowForm DEF p
  <2>. QED
    BY <2>1 DEF RowOf
<1>8. LineNumber(u) = p
  <2>1. p \div Fine \in Nat /\ p % Fine \in 0 .. Fine - 1 /\ p = Fine * (p \div Fine) + (p % Fine)
    BY <1>1, <1>6, Division
  <2> DEFINE d == p \div Fine
  <2>2. d \in Nat
    BY <2>1
  <2> HIDE DEF d
  <2>3. d * Fine = Fine * d
    BY <1>1, <2>2, Z3
  <2>4. LineNumber(u) = d * Fine + (p % Fine)
    BY <1>7 DEF LineNumber, d
  <2>. QED
    BY <2>1, <2>3, <2>4 DEF d
<1>9. LineNumber(b) = q /\ b.ntv = TableAt(a, line + 1)
  BY <1>6, <1>7, <1>8, LineBelow
<1>10. b \in Address
  BY NextTypes
<1>11. LineNumber(b) \div Fine = b.cy /\ LineNumber(b) % Fine = b.fy
  BY <1>10, LineNumbers
<1> HIDE DEF b
<1>12. RowOf(b) = [ntv |-> TableAt(a, line + 1), cy |-> q \div Fine, fy |-> q % Fine]
  BY <1>9, <1>11 DEF RowOf
<1>13. RowAt(a, line + 1) = [ntv |-> TableAt(a, line + 1), cy |-> q \div Fine, fy |-> q % Fine]
  BY <1>1, RowForm DEF q
<1>. QED
  BY <1>12, <1>13 DEF b

-----------------------------------------------------------------------------
(* The dots of a line. *)

Places == [line : 0 .. PreRender, dot : 0 .. LastDot]

LEMMA Screen ==
  /\ PreRender \in Nat /\ Lines \in Nat \ {0} /\ Lines < PreRender
  /\ LastShown \in Nat /\ LastShown % 8 = 0 /\ LastShown >= 8
  /\ CopyFrom \in Nat /\ CopyTo \in Nat /\ Prefetch \in Nat /\ Prefetch % 8 = 1
  /\ LastShown + 1 < CopyFrom /\ CopyFrom <= CopyTo /\ CopyTo < Prefetch
  /\ LastDot = Prefetch + 19 /\ LastDot \in Nat
  BY ScrollSizes

LEMMA LoadTimes ==
  ASSUME NEW d \in 0 .. LastDot
  PROVE  Loads(d) <=> \/ d % 8 = 1 /\ d \in 9 .. LastShown + 1
                      \/ d = Prefetch + 8
                      \/ d = Prefetch + 16
<1>1. d \in Nat /\ d <= Prefetch + 19 /\ Prefetch \in Nat /\ Prefetch % 8 = 1 /\ LastShown \in Nat
      /\ LastShown + 1 < Prefetch
  BY Screen
<1>2. Loads(d) <=> d % 8 = 1 /\ d > 1 /\ (d <= LastShown + 1 \/ d >= Prefetch + 8)
  BY DEF Loads, Tile
<1>3. ASSUME d >= Prefetch + 8
      PROVE  d % 8 = 1 <=> d = Prefetch + 8 \/ d = Prefetch + 16
  BY <1>1, <1>3
<1>4. ASSUME d % 8 = 1
      PROVE  d > 1 <=> d >= 9
  BY <1>1, <1>4
<1>. QED
  BY <1>1, <1>2, <1>3, <1>4

\* A load takes v one tile on.
LEMMA PassedNext ==
  ASSUME NEW a \in Places, NEW b \in Following(a), Rendered(b.line)
  PROVE  /\ Passed(a) \in Nat
         /\ CopiesHorizontal(b) => Passed(b) = 0
         /\ ~CopiesHorizontal(b) => Passed(b) = IF Loads(b.dot) THEN Passed(a) + 1 ELSE Passed(a)
<1> DEFINE d == b.dot
           p == a.dot
<1>1. /\ d \in 0 .. LastDot /\ p \in 0 .. LastDot
      /\ d # 0 => b.line = a.line /\ d = p + 1
      /\ d = 0 => p >= LastDot - 1
  <2>1. a.line \in 0 .. PreRender /\ a.dot \in 0 .. LastDot
    BY DEF Places
  <2>2. b.line \in 0 .. PreRender /\ b.dot \in 0 .. LastDot
    BY FollowingType DEF Places
  <2>3. /\ b.dot = 0 => a.dot = LastDot \/ (a.dot = LastDot - 1 /\ a.line = PreRender)
        /\ b.dot # 0 => b.line = a.line /\ b.dot = a.dot + 1
    BY FollowingType DEF Places
  <2>. QED
    BY <2>1, <2>2, <2>3, Screen
<1>2. Passed(b) = IF d <= LastShown THEN OnLine(d) ELSE Ahead(d)
  BY DEF Passed
<1>3. Passed(a) = IF ~Rendered(a.line) THEN 2 ELSE IF p <= LastShown THEN OnLine(p) ELSE Ahead(p)
  BY DEF Passed
<1>4. Loads(d) <=> \/ d % 8 = 1 /\ d \in 9 .. LastShown + 1
                   \/ d = Prefetch + 8
                   \/ d = Prefetch + 16
  BY <1>1, LoadTimes
<1>5. CopiesHorizontal(b) <=> d = LastShown + 1
  BY DEF CopiesHorizontal
<1>6. /\ \A n \in Nat : OnLine(n) = IF n = 0 THEN 2 ELSE 2 + ((n - 1) \div 8)
      /\ \A n \in Nat : Ahead(n) = IF n < Prefetch + 8 THEN 0 ELSE IF n < Prefetch + 16 THEN 1 ELSE 2
  BY Screen DEF OnLine, Ahead, Tile
<1> HIDE DEF d, p
<1>7. CASE d = 0
  <2>1. ~Loads(d) /\ ~CopiesHorizontal(b) /\ Passed(b) = 2
    BY <1>2, <1>4, <1>5, <1>6, <1>7, Screen
  <2>2. Passed(a) = 2
    BY <1>1, <1>3, <1>6, <1>7, Screen
  <2>. QED
    BY <2>1, <2>2 DEF d
<1>8. CASE d \in 1 .. LastShown
  <2>1. Rendered(a.line) /\ p \in 0 .. LastShown /\ d = p + 1 /\ d \in Nat /\ p \in Nat
    BY <1>1, <1>8, Screen
  <2>2. Passed(b) = 2 + ((d - 1) \div 8) /\ Passed(a) = IF p = 0 THEN 2 ELSE 2 + ((p - 1) \div 8)
    BY <1>2, <1>3, <1>6, <1>8, <2>1, Screen
  <2>3. Loads(d) <=> d % 8 = 1 /\ d >= 9
    BY <1>4, <1>8, Screen
  <2>4. Passed(a) \in Nat /\ Passed(b) = IF Loads(d) THEN Passed(a) + 1 ELSE Passed(a)
    BY <2>1, <2>2, <2>3
  <2>5. ~CopiesHorizontal(b)
    BY <1>5, <1>8, Screen
  <2>. QED
    BY <2>4, <2>5 DEF d
<1>9. CASE d = LastShown + 1
  <2>1. Passed(b) = 0 /\ CopiesHorizontal(b)
    BY <1>2, <1>5, <1>6, <1>9, Screen
  <2>2. Rendered(a.line) /\ p = LastShown
    BY <1>1, <1>9, Screen
  <2>3. Passed(a) \in Nat
    BY <1>3, <1>6, <2>2, Screen
  <2>. QED
    BY <2>1, <2>3
<1>10. CASE d > LastShown + 1
  <2>1. Rendered(a.line) /\ p > LastShown /\ d = p + 1 /\ d \in Nat /\ p \in Nat
    BY <1>1, <1>10, Screen
  <2>2. Passed(b) = Ahead(d) /\ Passed(a) = Ahead(p)
    BY <1>2, <1>3, <1>10, <2>1, Screen
  <2>3. Loads(d) <=> d = Prefetch + 8 \/ d = Prefetch + 16
    BY <1>4, <1>10, Screen
  <2>4. Passed(a) \in Nat /\ Passed(b) = IF Loads(d) THEN Passed(a) + 1 ELSE Passed(a)
    BY <1>6, <2>1, <2>2, <2>3, Screen
  <2>5. ~CopiesHorizontal(b)
    BY <1>5, <1>10, Screen
  <2>. QED
    BY <2>4, <2>5 DEF d
<1>. QED
  BY <1>1, <1>7, <1>8, <1>9, <1>10, Screen

-----------------------------------------------------------------------------
(* What a dot does. *)

HorAt(b) == IF CopiesHorizontal(b) THEN t ELSE hor
VerAt(b) == IF CopiesVertical(b) THEN t ELSE ver

LEMMA DotForm ==
  ASSUME NEW b, DotAt(b)
  PROVE  /\ Renders /\ Rendered(b.line) =>
              /\ v' = Walked(b) /\ latch' = LatchAt(b) /\ shift' = ShiftAt(b)
              /\ hor' = HorAt(b) /\ ver' = VerAt(b)
         /\ ~(Renders /\ Rendered(b.line)) =>
              /\ v' = v /\ latch' = latch /\ shift' = shift
              /\ hor' = hor /\ ver' = ver
         /\ pixel' # None => Renders /\ Draws(b) /\ pixel' = PixelAt(LoadedAt(b))
         /\ beam' = b /\ x' = x /\ mask' = mask
<1> DEFINE renders == Renders /\ Rendered(b.line)
<1>1. /\ v' = IF renders THEN Walked(b) ELSE v
      /\ latch' = IF renders THEN LatchAt(b) ELSE latch
      /\ shift' = IF renders THEN ShiftAt(b) ELSE shift
      /\ pixel' = IF renders /\ Draws(b) /\ mask.bg THEN PixelAt(LoadedAt(b)) ELSE None
      /\ hor' = IF renders /\ CopiesHorizontal(b) THEN t ELSE hor
      /\ ver' = IF renders /\ CopiesVertical(b) THEN t ELSE ver
      /\ beam' = b /\ x' = x /\ mask' = mask
  BY DEF DotAt, Rendered
<1> HIDE DEF renders
<1>2. renders => hor' = HorAt(b) /\ ver' = VerAt(b)
  BY <1>1 DEF HorAt, VerAt
<1>3. /\ renders => v' = Walked(b) /\ latch' = LatchAt(b) /\ shift' = ShiftAt(b)
      /\ ~renders => v' = v /\ latch' = latch /\ shift' = shift /\ hor' = hor /\ ver' = ver
      /\ pixel' # None => renders /\ Draws(b) /\ pixel' = PixelAt(LoadedAt(b))
  BY <1>1, Zenon
<1>. QED
  BY <1>1, <1>2, <1>3, Zenon DEF renders

\* v over the load of a dot.
Stepped(b) == IF Loads(b.dot) THEN NextColumn(v) ELSE v

LEMMA SteppedForm ==
  ASSUME v \in Address, NEW b
  PROVE  Stepped(b) \in Address /\ RowOf(Stepped(b)) = RowOf(v)
<1>1. NextColumn(v) \in Address /\ NextColumn(v).ntv = v.ntv /\ NextColumn(v).cy = v.cy
      /\ NextColumn(v).fy = v.fy
  BY NextTypes, ColumnStep
<1>. QED
  BY <1>1 DEF Stepped, RowOf

LEMMA WalkedForm ==
  ASSUME v \in Address, t \in Address, NEW b \in Places
  PROVE  /\ CopiesHorizontal(b) => Walked(b).cx = t.cx /\ Walked(b).nth = t.nth
         /\ ~CopiesHorizontal(b) => Walked(b).cx = Stepped(b).cx /\ Walked(b).nth = Stepped(b).nth
         /\ b.dot = LastShown => Walked(b) = NextLine(Stepped(b))
         /\ CopiesVertical(b) => RowOf(Walked(b)) = RowOf(t)
         /\ b.dot # LastShown /\ ~CopiesVertical(b) => RowOf(Walked(b)) = RowOf(v)
         /\ ~Loads(b.dot) /\ b.dot # LastShown /\ ~CopiesHorizontal(b) /\ ~CopiesVertical(b) => Walked(b) = v
<1> DEFINE a == Stepped(b)
<1>1. a \in Address /\ RowOf(a) = RowOf(v)
  BY SteppedForm
<1>2. Walked(b) = IF b.dot = LastShown THEN NextLine(a)
                  ELSE IF CopiesHorizontal(b) THEN WithHorizontal(a, t)
                  ELSE IF CopiesVertical(b) THEN WithVertical(a, t) ELSE a
  BY DEF Walked, Stepped
<1>3. b.dot \in 0 .. LastDot
  BY DEF Places
<1>4. /\ CopiesHorizontal(b) => b.dot # LastShown /\ ~CopiesVertical(b)
      /\ CopiesVertical(b) => b.dot # LastShown /\ ~CopiesHorizontal(b)
  BY <1>3, Screen DEF CopiesHorizontal, CopiesVertical
<1> HIDE DEF a
<1>5. CASE b.dot = LastShown
  <2>1. Walked(b) = NextLine(a)
    BY <1>2, <1>5
  <2>2. Walked(b).cx = a.cx /\ Walked(b).nth = a.nth
    BY <1>1, <2>1, LineBelow
  <2>. QED
    BY <1>4, <1>5, <2>1, <2>2, Zenon DEF a
<1>6. CASE CopiesHorizontal(b)
  <2>1. Walked(b) = WithHorizontal(a, t)
    BY <1>2, <1>4, <1>6
  <2>2. WithHorizontal(a, t) = [cx |-> t.cx, cy |-> a.cy, nth |-> t.nth, ntv |-> a.ntv, fy |-> a.fy]
    BY <1>1, CopyStep
  <2>3. Walked(b).cx = t.cx /\ Walked(b).nth = t.nth /\ RowOf(Walked(b)) = RowOf(a)
    BY <2>1, <2>2 DEF RowOf
  <2>. QED
    BY <1>1, <1>4, <1>6, <2>3, Zenon
<1>7. CASE CopiesVertical(b)
  <2>1. Walked(b) = WithVertical(a, t)
    BY <1>2, <1>4, <1>7
  <2>2. WithVertical(a, t) = [cx |-> a.cx, cy |-> t.cy, nth |-> a.nth, ntv |-> t.ntv, fy |-> t.fy]
    BY <1>1, CopyStep
  <2>3. Walked(b).cx = a.cx /\ Walked(b).nth = a.nth /\ RowOf(Walked(b)) = RowOf(t)
    BY <2>1, <2>2 DEF RowOf
  <2>. QED
    BY <1>4, <1>7, <2>3, Zenon DEF a
<1>8. CASE b.dot # LastShown /\ ~CopiesHorizontal(b) /\ ~CopiesVertical(b)
  <2>1. Walked(b) = a
    BY <1>2, <1>8
  <2>2. ~Loads(b.dot) => a = v
    BY DEF a, Stepped
  <2>. QED
    BY <1>1, <1>8, <2>1, <2>2, Zenon DEF a
<1>. QED
  BY <1>5, <1>6, <1>7, <1>8, Zenon

\* Columns.
LEMMA ColumnWalks ==
  ASSUME ScrollTypeOK, Scrolling, NEW b \in Following(beam), Rendered(b.line)
  PROVE  ColumnKept(Walked(b), HorAt(b), b)
<1>1. v \in Address /\ t \in Address /\ beam \in Places /\ (hor = None \/ hor \in Address)
  BY DEF ScrollTypeOK, Places
<1>2. b \in Places
  BY <1>1, FollowingType DEF Places
<1>3. /\ Passed(beam) \in Nat
      /\ CopiesHorizontal(b) => Passed(b) = 0
      /\ ~CopiesHorizontal(b) => Passed(b) = IF Loads(b.dot) THEN Passed(beam) + 1 ELSE Passed(beam)
  BY <1>1, PassedNext
<1>4. CASE CopiesHorizontal(b)
  <2>1. HorAt(b) = t /\ Walked(b).cx = t.cx /\ Walked(b).nth = t.nth
    BY <1>1, <1>2, <1>4, WalkedForm DEF HorAt
  <2>2. Along(t, 0).cx = t.cx /\ Along(t, 0).nth = t.nth
    BY <1>1, AlongZero
  <2>. QED
    BY <1>3, <1>4, <2>1, <2>2 DEF ColumnKept
<1>5. CASE ~CopiesHorizontal(b)
  <2> SUFFICES ASSUME hor # None
               PROVE  /\ Walked(b).cx = Along(hor, Passed(b)).cx
                      /\ Walked(b).nth = Along(hor, Passed(b)).nth
    BY <1>5 DEF ColumnKept, HorAt
  <2>1. Walked(b).cx = Stepped(b).cx /\ Walked(b).nth = Stepped(b).nth
    BY <1>1, <1>2, <1>5, WalkedForm
  <2>2. v.cx = Along(hor, Passed(beam)).cx /\ v.nth = Along(hor, Passed(beam)).nth
    BY DEF Scrolling, ColumnKept
  <2>3. CASE Loads(b.dot)
    <3> DEFINE k == Passed(beam)
    <3> HIDE DEF k
    <3>1. k \in Nat /\ hor \in Address /\ v.cx = Along(hor, k).cx /\ v.nth = Along(hor, k).nth
      BY <1>1, <1>3, <2>2 DEF k
    <3>2. NextColumn(v).cx = Along(hor, k + 1).cx /\ NextColumn(v).nth = Along(hor, k + 1).nth
      BY <1>1, <3>1, AlongNext
    <3>3. Passed(b) = k + 1 /\ Stepped(b) = NextColumn(v)
      BY <1>3, <1>5, <2>3 DEF k, Stepped
    <3>. QED
      BY <2>1, <3>2, <3>3
  <2>4. CASE ~Loads(b.dot)
    <3>1. Passed(b) = Passed(beam) /\ Stepped(b) = v
      BY <1>3, <1>5, <2>4 DEF Stepped
    <3>. QED
      BY <2>1, <2>2, <3>1
  <2>. QED
    BY <2>3, <2>4
<1>. QED
  BY <1>4, <1>5

\* Rows.
LEMMA LineNext ==
  ASSUME NEW a \in Places, NEW b \in Following(a),
         Rendered(b.line), Positioned(b), ~CopiesVertical(b)
  PROVE  /\ Positioned(a)
         /\ b.dot = LastShown => LineAt(a) \in 0 .. Lines - 1 /\ LineAt(b) = LineAt(a) + 1
         /\ b.dot # LastShown => LineAt(b) = LineAt(a)
<1> DEFINE d == b.dot
           p == a.dot
           m == b.line
           n == a.line
<1>1. /\ d \in 0 .. LastDot /\ p \in 0 .. LastDot /\ m \in 0 .. PreRender /\ n \in 0 .. PreRender
      /\ d # 0 => m = n /\ d = p + 1
      /\ d = 0 => p >= LastDot - 1
      /\ d = 0 => (m = 0 /\ n = PreRender) \/ m = n + 1
  <2>1. a.line \in 0 .. PreRender /\ a.dot \in 0 .. LastDot
    BY DEF Places
  <2>2. b.line \in 0 .. PreRender /\ b.dot \in 0 .. LastDot
    BY FollowingType DEF Places
  <2>3. /\ b.dot = 0 => a.dot = LastDot \/ (a.dot = LastDot - 1 /\ a.line = PreRender)
        /\ b.dot # 0 => b.line = a.line /\ b.dot = a.dot + 1
        /\ b.dot = 0 => (b.line = 0 /\ a.line = PreRender) \/ b.line = a.line + 1
    BY FollowingType DEF Places
  <2>. QED
    BY <2>1, <2>2, <2>3, Screen
<1>2. /\ m < Lines \/ (m = PreRender /\ d >= CopyFrom)
      /\ ~(m = PreRender /\ d \in CopyFrom .. CopyTo)
  BY DEF Positioned, CopiesVertical
<1>3. /\ LineAt(b) = IF m = PreRender THEN 0 ELSE IF d < LastShown THEN m ELSE m + 1
      /\ LineAt(a) = IF n = PreRender THEN 0 ELSE IF p < LastShown THEN n ELSE n + 1
      /\ Positioned(a) <=> n < Lines \/ (n = PreRender /\ p >= CopyFrom)
  BY DEF LineAt, Positioned
<1> HIDE DEF d, p, m, n
<1>4. CASE m < Lines /\ d # 0
  BY <1>1, <1>2, <1>3, <1>4, Screen DEF d
<1>5. CASE m < Lines /\ d = 0
  BY <1>1, <1>2, <1>3, <1>5, Screen DEF d
<1>6. CASE m = PreRender
  <2>1. d > CopyTo /\ d > LastShown + 1 /\ d # 0
    BY <1>1, <1>2, <1>6, Screen
  <2>2. n = PreRender /\ p >= CopyFrom
    BY <1>1, <1>6, <2>1, Screen
  <2>. QED
    BY <1>3, <1>6, <2>1, <2>2, Screen DEF d
<1>. QED
  BY <1>2, <1>4, <1>5, <1>6

LEMMA RowWalks ==
  ASSUME ScrollTypeOK, Scrolling, NEW b \in Following(beam), Rendered(b.line)
  PROVE  RowKept(Walked(b), VerAt(b), b)
<1>1. v \in Address /\ t \in Address /\ beam \in Places /\ (ver = None \/ ver \in Address)
  BY DEF ScrollTypeOK, Places
<1>2. b \in Places
  BY <1>1, FollowingType DEF Places
<1>3. CASE CopiesVertical(b)
  <2>1. VerAt(b) = t /\ RowOf(Walked(b)) = RowOf(t)
    BY <1>1, <1>2, <1>3, WalkedForm DEF VerAt
  <2>2. LineAt(b) = 0
    BY <1>3 DEF LineAt, CopiesVertical
  <2>3. RowAt(t, 0) = RowOf(t)
    BY <1>1, RowZero
  <2>. QED
    BY <2>1, <2>2, <2>3 DEF RowKept
<1>4. CASE ~CopiesVertical(b)
  <2> SUFFICES ASSUME ver # None, Positioned(b)
               PROVE  RowOf(Walked(b)) = RowAt(ver, LineAt(b))
    BY <1>4 DEF RowKept, VerAt
  <2>1. /\ Positioned(beam)
        /\ b.dot = LastShown => LineAt(beam) \in 0 .. Lines - 1 /\ LineAt(b) = LineAt(beam) + 1
        /\ b.dot # LastShown => LineAt(b) = LineAt(beam)
    BY <1>1, <1>4, LineNext
  <2>2. RowOf(v) = RowAt(ver, LineAt(beam))
    BY <2>1 DEF Scrolling, RowKept
  <2>3. CASE b.dot = LastShown
    <3> DEFINE line == LineAt(beam)
    <3> HIDE DEF line
    <3>1. line \in 0 .. Lines - 1 /\ LineAt(b) = line + 1 /\ ver \in Address
      BY <1>1, <2>1, <2>3 DEF line
    <3>2. Stepped(b) \in Address /\ RowOf(Stepped(b)) = RowAt(ver, line)
      BY <1>1, <2>2, SteppedForm DEF line
    <3>3. RowOf(NextLine(Stepped(b))) = RowAt(ver, line + 1)
      BY <3>1, <3>2, RowNext
    <3>4. Walked(b) = NextLine(Stepped(b))
      BY <1>1, <1>2, <2>3, WalkedForm
    <3>. QED
      BY <3>1, <3>3, <3>4
  <2>4. CASE b.dot # LastShown
    <3>1. RowOf(Walked(b)) = RowOf(v)
      BY <1>1, <1>2, <1>4, <2>4, WalkedForm
    <3>. QED
      BY <2>1, <2>2, <2>4, <3>1
  <2>. QED
    BY <2>3, <2>4
<1>. QED
  BY <1>3, <1>4

\* Latches.
LatchOf(l) == [name |-> l.name, attribute |-> l.attribute, lo |-> l.lo, hi |-> l.hi]

LEMMA FetchedForm ==
  ASSUME NEW l, l = LatchOf(l), NEW a, NEW dot \in Nat \ {0}
  PROVE  LET phase == (dot - 1) % Tile
             m == Fetched(l, a, dot)
         IN  /\ phase \in 0 .. 1 => m = [name |-> NameByte(a), attribute |-> l.attribute, lo |-> l.lo, hi |-> l.hi]
             /\ phase \in 2 .. 3 => m = [name |-> l.name, attribute |-> AttributeByte(a), lo |-> l.lo, hi |-> l.hi]
             /\ phase \in 4 .. 5 => m = [name |-> l.name, attribute |-> l.attribute, lo |-> <<l.name, a.fy>>, hi |-> l.hi]
             /\ phase \in 6 .. 7 => m = [name |-> l.name, attribute |-> l.attribute, lo |-> l.lo, hi |-> <<l.name, a.fy>>]
             /\ phase \in 0 .. 7
             /\ m = LatchOf(m)
<1> DEFINE phase == (dot - 1) % 8
           step == phase \div 2
           m == Fetched(l, a, dot)
<1>1. /\ phase \in 0 .. 7
      /\ phase \in 0 .. 1 => step = 0
      /\ phase \in 2 .. 3 => step = 1
      /\ phase \in 4 .. 5 => step = 2
      /\ phase \in 6 .. 7 => step = 3
  OBVIOUS
<1>2. m = CASE step = 0 -> [l EXCEPT !.name = NameByte(a)]
            [] step = 1 -> [l EXCEPT !.attribute = AttributeByte(a)]
            [] step = 2 -> [l EXCEPT !.lo = <<l.name, a.fy>>]
            [] step = 3 -> [l EXCEPT !.hi = <<l.name, a.fy>>]
  BY DEF Fetched, Tile
<1>3. \A y : /\ [l EXCEPT !.name = y] = [name |-> y, attribute |-> l.attribute, lo |-> l.lo, hi |-> l.hi]
             /\ [l EXCEPT !.attribute = y] = [name |-> l.name, attribute |-> y, lo |-> l.lo, hi |-> l.hi]
             /\ [l EXCEPT !.lo = y] = [name |-> l.name, attribute |-> l.attribute, lo |-> y, hi |-> l.hi]
             /\ [l EXCEPT !.hi = y] = [name |-> l.name, attribute |-> l.attribute, lo |-> l.lo, hi |-> y]
  BY DEF LatchOf
<1> HIDE DEF step, m
<1>4. /\ step = 0 => m = [name |-> NameByte(a), attribute |-> l.attribute, lo |-> l.lo, hi |-> l.hi]
      /\ step = 1 => m = [name |-> l.name, attribute |-> AttributeByte(a), lo |-> l.lo, hi |-> l.hi]
      /\ step = 2 => m = [name |-> l.name, attribute |-> l.attribute, lo |-> <<l.name, a.fy>>, hi |-> l.hi]
      /\ step = 3 => m = [name |-> l.name, attribute |-> l.attribute, lo |-> l.lo, hi |-> <<l.name, a.fy>>]
  <2>1. ASSUME step = 0 PROVE m = [l EXCEPT !.name = NameByte(a)]
    BY <1>2, <2>1
  <2>2. ASSUME step = 1 PROVE m = [l EXCEPT !.attribute = AttributeByte(a)]
    BY <1>2, <2>2
  <2>3. ASSUME step = 2 PROVE m = [l EXCEPT !.lo = <<l.name, a.fy>>]
    BY <1>2, <2>3
  <2>4. ASSUME step = 3 PROVE m = [l EXCEPT !.hi = <<l.name, a.fy>>]
    BY <1>2, <2>4
  <2>. QED
    BY <1>3, <2>1, <2>2, <2>3, <2>4, Zenon
<1> HIDE DEF phase
<1>5. step = 0 \/ step = 1 \/ step = 2 \/ step = 3
  BY <1>1
<1>6. m = LatchOf(m)
  BY <1>4, <1>5 DEF LatchOf
<1>. QED
  BY <1>1, <1>4, <1>6, Zenon DEF phase, m, Tile

LEMMA LatchShape ==
  ASSUME Scrolling, NEW b \in Places
  PROVE  LatchAt(b) = LatchOf(LatchAt(b))
<1>1. latch = LatchOf(latch)
  BY DEF Scrolling, LatchOf
<1>2. CASE Fetches(b.dot)
  <2>1. b.dot \in Nat \ {0}
    BY <1>2, Screen DEF Fetches, Places
  <2>2. LatchAt(b) = Fetched(latch, v, b.dot)
    BY <1>2 DEF LatchAt
  <2>3. Fetched(latch, v, b.dot) = LatchOf(Fetched(latch, v, b.dot))
    BY <1>1, <2>1, FetchedForm
  <2>. QED
    BY <2>2, <2>3, Zenon
<1>3. CASE ~Fetches(b.dot)
  <2>1. \A y : [latch EXCEPT !.name = y]
                 = [name |-> y, attribute |-> latch.attribute, lo |-> latch.lo, hi |-> latch.hi]
    BY <1>1 DEF LatchOf
  <2> DEFINE a == IF Loads(b.dot) THEN NextColumn(v) ELSE v
  <2>2. LatchAt(b) = IF Dummies(b.dot) THEN [latch EXCEPT !.name = NameByte(a)] ELSE latch
    BY <1>3 DEF LatchAt
  <2> HIDE DEF a
  <2>3. CASE Dummies(b.dot)
    BY <2>1, <2>2, <2>3 DEF LatchOf
  <2>4. CASE ~Dummies(b.dot)
    BY <1>1, <2>2, <2>4
  <2>. QED
    BY <2>3, <2>4
<1>. QED
  BY <1>2, <1>3

LEMMA LatchWalks ==
  ASSUME ScrollTypeOK, Scrolling, NEW b \in Following(beam), Rendered(b.line), HorAt(b) # None
  PROVE  LatchKept(LatchAt(b), Walked(b), b)
<1> DEFINE d == b.dot
           p == beam.dot
           phase == (d - 1) % 8
           l == LatchAt(b)
<1>1. v \in Address /\ t \in Address /\ beam \in Places
  BY DEF ScrollTypeOK, Places
<1>2. b \in Places /\ d \in 0 .. LastDot /\ p \in 0 .. LastDot /\ (d # 0 => b.line = beam.line /\ d = p + 1)
  BY <1>1, FollowingType DEF Places
<1> SUFFICES ASSUME Latching(d), phase >= 1
             PROVE  /\ phase >= 1 => l.name = NameByte(Walked(b))
                    /\ phase >= 2 => l.attribute = AttributeByte(Walked(b))
                    /\ phase >= 4 => l.lo = <<NameByte(Walked(b)), Walked(b).fy>>
                    /\ phase >= 6 => l.hi = <<NameByte(Walked(b)), Walked(b).fy>>
  <2>1. phase \in Int
    BY <1>2
  <2>. QED
    BY <2>1 DEF LatchKept, Tile
<1>3. d \in 1 .. LastShown - 1 \/ d \in Prefetch .. Prefetch + 15
  BY Screen DEF Latching, Tile
<1>4. /\ d \in Nat /\ d # 0 /\ p \in Nat /\ d = p + 1 /\ d # LastShown /\ d # LastShown + 1
      /\ ~(d \in CopyFrom .. CopyTo) /\ d % 8 # 1 /\ (p - 1) % 8 = phase - 1
      /\ p \in 1 .. LastShown - 1 \/ p \in Prefetch .. Prefetch + 15
      /\ phase \in 1 .. 7
  <2>1. d \in Nat /\ p \in Nat /\ d # 0
    BY <1>2, <1>3, Screen
  <2>2. d = p + 1
    BY <1>2, <2>1
  <2>3. phase \in 1 .. 7 /\ d % 8 # 1 /\ (p - 1) % 8 = phase - 1 /\ p # 0
    <3> DEFINE n == p % 8
    <3>1. phase = n /\ phase >= 1
      BY <2>1, <2>2
    <3> HIDE DEF d, p, phase
    <3>2. /\ n \in 0 .. 7 /\ (n # 0 => p # 0 /\ (p - 1) % 8 = n - 1)
          /\ (p + 1) % 8 = 1 => n = 0
      BY <2>1
    <3> HIDE DEF n
    <3>. QED
      BY <2>1, <2>2, <3>1, <3>2
  <2> HIDE DEF d, p, phase
  <2>4. d # Prefetch
    BY <2>3, Screen
  <2>. QED
    BY <1>3, <2>1, <2>2, <2>3, <2>4, Screen
<1>5. l = Fetched(latch, v, d)
  BY <1>3, Screen DEF LatchAt, Fetches, Tile
<1>6. ~Loads(d) /\ ~CopiesHorizontal(b) /\ ~CopiesVertical(b)
  BY <1>4 DEF Loads, CopiesHorizontal, CopiesVertical, Tile
<1>7. Walked(b) = v
  BY <1>1, <1>2, <1>4, <1>6, WalkedForm
<1>8. /\ phase - 1 >= 1 => latch.name = NameByte(v)
      /\ phase - 1 >= 2 => latch.attribute = AttributeByte(v)
      /\ phase - 1 >= 4 => latch.lo = <<NameByte(v), v.fy>>
      /\ phase - 1 >= 6 => latch.hi = <<NameByte(v), v.fy>>
  <2>1. hor # None
    BY <1>6 DEF HorAt
  <2>2. Rendered(beam.line) /\ Latching(p)
    BY <1>2, <1>4, Screen DEF Latching, Tile
  <2>3. LatchKept(latch, v, beam)
    BY <2>1 DEF Scrolling
  <2>. QED
    BY <1>4, <2>2, <2>3 DEF LatchKept, Tile
<1>9. latch = LatchOf(latch)
  BY DEF Scrolling, LatchOf
<1>10. /\ phase \in 0 .. 1 => l = [name |-> NameByte(v), attribute |-> latch.attribute, lo |-> latch.lo, hi |-> latch.hi]
       /\ phase \in 2 .. 3 => l = [name |-> latch.name, attribute |-> AttributeByte(v), lo |-> latch.lo, hi |-> latch.hi]
       /\ phase \in 4 .. 5 => l = [name |-> latch.name, attribute |-> latch.attribute, lo |-> <<latch.name, v.fy>>, hi |-> latch.hi]
       /\ phase \in 6 .. 7 => l = [name |-> latch.name, attribute |-> latch.attribute, lo |-> latch.lo, hi |-> <<latch.name, v.fy>>]
  BY <1>4, <1>5, <1>9, FetchedForm DEF Tile
<1> HIDE DEF d, p, phase, l
<1>11. CASE phase \in 0 .. 1
  BY <1>4, <1>7, <1>8, <1>10, <1>11
<1>12. CASE phase \in 2 .. 3
  BY <1>4, <1>7, <1>8, <1>10, <1>12
<1>13. CASE phase \in 4 .. 5
  BY <1>4, <1>7, <1>8, <1>10, <1>13
<1>14. CASE phase \in 6 .. 7
  BY <1>4, <1>7, <1>8, <1>10, <1>14
<1>. QED
  BY <1>4, <1>11, <1>12, <1>13, <1>14

\* Tiles.
LEMMA TileHere ==
  ASSUME ScrollTypeOK, Scrolling, hor # None, ver # None, Positioned(beam)
  PROVE  v = TileAt(hor, ver, Passed(beam), LineAt(beam))
<1>1. v.cx = Along(hor, Passed(beam)).cx /\ v.nth = Along(hor, Passed(beam)).nth
  BY DEF Scrolling, ColumnKept
<1>2. RowOf(v) = RowAt(ver, LineAt(beam))
  BY DEF Scrolling, RowKept
<1>3. v.ntv = RowAt(ver, LineAt(beam)).ntv /\ v.cy = RowAt(ver, LineAt(beam)).cy
      /\ v.fy = RowAt(ver, LineAt(beam)).fy
  BY <1>2 DEF RowOf
<1>4. v = [cx |-> v.cx, cy |-> v.cy, nth |-> v.nth, ntv |-> v.ntv, fy |-> v.fy]
  BY DEF ScrollTypeOK, Address
<1>. QED
  BY <1>1, <1>3, <1>4, Zenon DEF TileAt

LEMMA StripForm ==
  ASSUME NEW h, NEW r, NEW line, NEW k \in Nat, NEW c \in 0 .. 7, NEW n, n = 8 * k + c
  PROVE  Strip(h, r, n, line) = Dots(TileAt(h, r, k, line), c)
<1>1. n \div 8 = k /\ n % 8 = c
  OBVIOUS
<1>. QED
  BY <1>1, Zenon DEF Strip, Tile

LEMMA LoadedForm ==
  ASSUME ScrollTypeOK, Scrolling, NEW b \in Following(beam), Rendered(b.line),
         Loads(b.dot), b.dot # LastShown + 1, hor # None
  PROVE  \A i \in 1 .. 16 : LoadedAt(b)[i] = IF i <= 8 THEN shift[i] ELSE Dots(v, i - 9)
<1> DEFINE d == b.dot
           p == beam.dot
           l == LatchAt(b)
<1>1. beam \in Places
  BY DEF ScrollTypeOK, Places
<1>2. b \in Places /\ d \in 0 .. LastDot /\ p \in 0 .. LastDot /\ (d # 0 => b.line = beam.line /\ d = p + 1)
  BY <1>1, FollowingType DEF Places
<1>3. (d % 8 = 1 /\ d \in 9 .. LastShown + 1) \/ d = Prefetch + 8 \/ d = Prefetch + 16
  BY <1>2, LoadTimes
<1>4. /\ d \in Nat /\ d # 0 /\ p \in Nat /\ d = p + 1 /\ d % 8 = 1
      /\ p \in 8 .. LastShown - 1 \/ p = Prefetch + 7 \/ p = Prefetch + 15
  <2>1. d \in Nat /\ p \in Nat /\ d # 0 /\ d # LastShown + 1
    BY <1>2, <1>3, Screen
  <2>2. d = p + 1
    BY <1>2, <2>1
  <2> HIDE DEF d, p
  <2>. QED
    BY <1>3, <2>1, <2>2, Screen
<1>5. latch = LatchOf(latch)
  BY DEF Scrolling, LatchOf
<1>6. /\ latch.attribute = AttributeByte(v)
      /\ latch.lo = <<NameByte(v), v.fy>> /\ latch.hi = <<NameByte(v), v.fy>>
  <2>1. Rendered(beam.line) /\ Latching(p)
    BY <1>2, <1>4, Screen DEF Latching, Tile
  <2>2. (p - 1) % 8 = 7
    <3> HIDE DEF d, p
    <3>. QED
      BY <1>4
  <2>3. LatchKept(latch, v, beam)
    BY DEF Scrolling
  <2>. QED
    BY <2>1, <2>2, <2>3 DEF LatchKept, Tile
<1>7. l.attribute = latch.attribute /\ l.lo = latch.lo /\ l.hi = latch.hi
  <2>1. CASE Fetches(d)
    <3>1. (d - 1) % 8 = 0
      <4> HIDE DEF d, p
      <4>. QED
        BY <1>4
    <3>2. l = Fetched(latch, v, d)
      BY <2>1 DEF LatchAt
    <3>3. l = [name |-> NameByte(v), attribute |-> latch.attribute, lo |-> latch.lo, hi |-> latch.hi]
      <4>1. (d - 1) % 8 \in 0 .. 1 =>
              Fetched(latch, v, d)
                = [name |-> NameByte(v), attribute |-> latch.attribute, lo |-> latch.lo, hi |-> latch.hi]
        BY <1>4, <1>5, FetchedForm DEF Tile
      <4>2. (d - 1) % 8 \in 0 .. 1
        BY <3>1
      <4>. QED
        BY <3>2, <4>1, <4>2, Zenon
    <3>. QED
      BY <3>3
  <2>2. CASE ~Fetches(d)
    <3>1. \A y : [latch EXCEPT !.name = y]
                   = [name |-> y, attribute |-> latch.attribute, lo |-> latch.lo, hi |-> latch.hi]
      BY <1>5 DEF LatchOf
    <3> DEFINE a == IF Loads(d) THEN NextColumn(v) ELSE v
    <3>2. l = IF Dummies(d) THEN [latch EXCEPT !.name = NameByte(a)] ELSE latch
      BY <2>2 DEF LatchAt
    <3> HIDE DEF a
    <3>. QED
      BY <3>1, <3>2
  <2>. QED
    BY <2>1, <2>2
<1>8. LoadedAt(b) = [i \in 1 .. 16 |->
        IF i <= 8 THEN shift[i]
        ELSE [lo |-> l.lo, hi |-> l.hi, palette |-> <<l.attribute, Quadrant(v)>>, col |-> i - 8 - 1]]
  BY DEF LoadedAt, Loaded, Tile
<1> HIDE DEF l
<1> TAKE i \in 1 .. 16
<1>9. CASE i <= 8
  BY <1>8, <1>9
<1>10. CASE ~(i <= 8)
  <2>1. LoadedAt(b)[i]
          = [lo |-> l.lo, hi |-> l.hi, palette |-> <<l.attribute, Quadrant(v)>>, col |-> i - 8 - 1]
    BY <1>8, <1>10
  <2>2. i - 8 - 1 = i - 9
    OBVIOUS
  <2>. QED
    BY <1>6, <1>7, <1>10, <2>1, <2>2 DEF Dots
<1>. QED
  BY <1>9, <1>10

\* The shift registers over the dots that show a line, before they shift.
LEMMA ShownLoaded ==
  ASSUME ScrollTypeOK, Scrolling, NEW b \in Following(beam), Draws(b), hor # None, ver # None
  PROVE  \A i \in 1 .. 16 : b.dot + i - 2 < 8 * OnLine(b.dot) =>
           LoadedAt(b)[i] = Strip(hor, ver, b.dot + i - 2, b.line)
<1> DEFINE d == b.dot
           p == beam.dot
           line == b.line
<1>1. beam \in Places
  BY DEF ScrollTypeOK, Places
<1>2. b \in Places /\ d \in 0 .. LastDot /\ p \in 0 .. LastDot /\ (d # 0 => line = beam.line /\ d = p + 1)
      /\ line \in 0 .. PreRender
  BY <1>1, FollowingType DEF Places
<1>3. /\ line < Lines /\ Rendered(line) /\ d \in 1 .. LastShown /\ d # 0
      /\ line = beam.line /\ d = p + 1 /\ p \in 0 .. LastShown - 1 /\ p \in Nat
  <2>1. line < Lines /\ Rendered(line) /\ d \in 1 .. LastShown /\ d # 0
    BY Screen DEF Draws, Rendered
  <2>. QED
    BY <1>2, <2>1, Screen
<1>4. /\ OnLine(d) = 2 + ((d - 1) \div 8)
      /\ OnLine(p) = IF p = 0 THEN 2 ELSE 2 + ((p - 1) \div 8)
      /\ Loads(d) <=> d % 8 = 1 /\ d > 1
  BY <1>3, Screen DEF OnLine, Loads, Tile
<1>5. \A i \in 1 .. 16 : p + i - 1 < 8 * OnLine(p) => shift[i] = Strip(hor, ver, p + i - 1, line)
  <2>1. beam.line < Lines /\ p <= LastShown /\ Rendered(beam.line)
    BY <1>3, Screen
  <2>2. StreamKept(shift, hor, ver, beam)
    BY DEF Scrolling
  <2>. QED
    BY <1>3, <2>1, <2>2 DEF StreamKept, Tile
<1> HIDE DEF d, p, line
<1>6. SUFFICES ASSUME NEW i \in 1 .. 16, d + i - 2 < 8 * OnLine(d)
               PROVE  LoadedAt(b)[i] = Strip(hor, ver, d + i - 2, line)
  BY DEF d, line
<1>7. d + i - 2 = p + i - 1
  BY <1>3
<1>8. CASE ~Loads(d)
  <2>1. LoadedAt(b) = shift
    BY <1>8 DEF LoadedAt, d
  <2>2. OnLine(p) = OnLine(d)
    BY <1>3, <1>4, <1>8
  <2>. QED
    BY <1>5, <1>6, <1>7, <2>1, <2>2
<1>9. CASE Loads(d)
  <2>1. LoadedAt(b)[i] = IF i <= 8 THEN shift[i] ELSE Dots(v, i - 9)
    <3>1. d # LastShown + 1
      BY <1>3, Screen
    <3>. QED
      BY <1>3, <1>9, <3>1, LoadedForm DEF d, line
  <2>2. CASE i <= 8
    <3>1. p + i - 1 < 8 * OnLine(p)
      BY <1>3, <1>4, <1>9, <2>2
    <3>. QED
      BY <1>5, <1>7, <2>1, <2>2, <3>1
  <2>3. CASE ~(i <= 8)
    <3> DEFINE k == OnLine(p)
               c == i - 9
    <3>1. k \in Nat /\ c \in 0 .. 7 /\ p + i - 1 = 8 * k + c
      BY <1>3, <1>4, <1>9, <2>3
    <3>2. Passed(beam) = k /\ LineAt(beam) = line /\ Positioned(beam)
      BY <1>2, <1>3, Screen DEF Passed, LineAt, Positioned, p, line, Rendered
    <3> HIDE DEF k, c
    <3>3. v = TileAt(hor, ver, k, line)
      BY <3>2, TileHere
    <3>4. Strip(hor, ver, p + i - 1, line) = Dots(TileAt(hor, ver, k, line), c)
      BY <3>1, StripForm
    <3>. QED
      BY <1>7, <2>1, <2>3, <3>3, <3>4 DEF c
  <2>. QED
    BY <2>2, <2>3
<1>. QED
  BY <1>8, <1>9

\* The shift registers over the dots of a line.
LEMMA ShiftedForm ==
  ASSUME NEW s
  PROVE  \A i \in 1 .. 15 : Shifted(s)[i] = s[i + 1]
  BY DEF Shifted, Tile

LEMMA ShownWalks ==
  ASSUME ScrollTypeOK, Scrolling, NEW b \in Following(beam),
         b.line < Lines, b.dot <= LastShown, hor # None, ver # None
  PROVE  \A i \in 1 .. 16 : b.dot + i - 1 < 8 * OnLine(b.dot) =>
           ShiftAt(b)[i] = Strip(hor, ver, b.dot + i - 1, b.line)
<1> DEFINE d == b.dot
           p == beam.dot
           line == b.line
<1>1. beam \in Places
  BY DEF ScrollTypeOK, Places
<1>2. /\ d \in 0 .. LastDot /\ p \in 0 .. LastDot /\ line \in 0 .. PreRender
      /\ beam.line \in 0 .. PreRender
      /\ d = 0 => (line = 0 /\ beam.line = PreRender) \/ line = beam.line + 1
      /\ d = 0 => p = LastDot \/ (p = LastDot - 1 /\ beam.line = PreRender)
  BY <1>1, FollowingType DEF Places
<1>3. ~Preshifts(d)
  BY <1>2, Screen DEF Preshifts, Tile
<1>4. CASE d = 0
  <2>1. ~Loads(d) /\ ~Draws(b)
    BY <1>4, Screen DEF Loads, Draws
  <2>2. ShiftAt(b) = shift
    BY <1>3, <2>1 DEF ShiftAt, LoadedAt
  <2>3. p >= Prefetch + 16 /\ Rendered(beam.line) /\ LineAt(beam) = line
    BY <1>2, <1>4, Screen DEF Rendered, LineAt
  <2>4. \A i \in 1 .. 16 : shift[i] = Strip(hor, ver, i - 1, line)
    <3>1. StreamKept(shift, hor, ver, beam)
      BY DEF Scrolling
    <3>. QED
      BY <2>3, <3>1 DEF StreamKept, Tile
  <2> TAKE i \in 1 .. 16
  <2>5. d + i - 1 = i - 1
    BY <1>4
  <2>. QED
    BY <2>2, <2>4, <2>5
<1>5. CASE d \in 1 .. LastShown
  <2>1. Draws(b)
    BY <1>5 DEF Draws
  <2>2. ShiftAt(b) = Shifted(LoadedAt(b))
    BY <2>1 DEF ShiftAt
  <2>3. \A i \in 1 .. 16 : d + i - 2 < 8 * OnLine(d) =>
          LoadedAt(b)[i] = Strip(hor, ver, d + i - 2, line)
    BY <2>1, ShownLoaded
  <2>4. d \in Nat /\ d >= 1 /\ 8 * OnLine(d) <= d + 15
    <3>1. d \in Nat /\ d >= 1 /\ OnLine(d) = 2 + ((d - 1) \div 8)
      BY <1>5, Screen DEF OnLine, Tile
    <3> HIDE DEF d
    <3>. QED
      BY <3>1
  <2> HIDE DEF d, line
  <2>5. SUFFICES ASSUME NEW i \in 1 .. 16, d + i - 1 < 8 * OnLine(d)
                 PROVE  ShiftAt(b)[i] = Strip(hor, ver, d + i - 1, line)
    BY DEF d, line
  <2> DEFINE e == 8 * OnLine(d)
  <2> HIDE DEF e
  <2>6. i \in 1 .. 15 /\ i + 1 \in 1 .. 16 /\ d + (i + 1) - 2 = d + i - 1 /\ d + (i + 1) - 2 < e
    <3>1. d + i - 1 < e /\ e <= d + 15
      BY <2>4, <2>5 DEF e
    <3>2. i < 16
      <4> SUFFICES ASSUME ~(i < 16) PROVE FALSE
        OBVIOUS
      <4>1. i = 16 /\ d + 16 - 1 = d + 15
        BY <2>4
      <4>2. OnLine(d) \in Nat
        BY <2>4 DEF OnLine, Tile
      <4>3. e \in Nat
        BY <4>2 DEF e
      <4>. QED
        BY <2>4, <3>1, <4>1, <4>3
    <3>. QED
      BY <2>4, <3>1, <3>2
  <2>7. ShiftAt(b)[i] = LoadedAt(b)[i + 1]
    BY <2>2, <2>6, ShiftedForm
  <2>8. LoadedAt(b)[i + 1] = Strip(hor, ver, d + (i + 1) - 2, line)
    BY <2>3, <2>6 DEF e
  <2>. QED
    BY <2>6, <2>7, <2>8
<1>. QED
  BY <1>2, <1>4, <1>5, Screen

LEMMA AheadWalks ==
  ASSUME ScrollTypeOK, Scrolling, NEW b \in Following(beam), Rendered(b.line),
         b.dot >= Prefetch + 8, hor # None, ver # None
  PROVE  /\ b.dot <= Prefetch + 15 =>
              \A i \in 8 - (b.dot - (Prefetch + 8)) .. 15 - (b.dot - (Prefetch + 8)) :
                 ShiftAt(b)[i] = Strip(hor, ver, i + (b.dot - (Prefetch + 8)) - 8, LineAt(b))
         /\ b.dot >= Prefetch + 16 =>
              \A i \in 1 .. 16 : ShiftAt(b)[i] = Strip(hor, ver, i - 1, LineAt(b))
<1> DEFINE d == b.dot
           p == beam.dot
           j == d - (Prefetch + 8)
           line == LineAt(b)
<1>1. beam \in Places
  BY DEF ScrollTypeOK, Places
<1>2. /\ b.dot \in 0 .. LastDot /\ beam.dot \in 0 .. LastDot /\ b.line \in 0 .. PreRender
      /\ beam.line \in 0 .. PreRender
      /\ b.dot # 0 => b.line = beam.line /\ b.dot = beam.dot + 1
  BY <1>1, FollowingType DEF Places
<1>3. /\ d \in Nat /\ p \in Nat /\ d = p + 1 /\ b.line = beam.line /\ j \in 0 .. 11
      /\ Prefetch \in Nat /\ d = Prefetch + 8 + j
  BY <1>2, Screen
<1>4. Rendered(beam.line) /\ Positioned(beam) /\ LineAt(beam) = line
  <2>1. d > LastShown /\ p > LastShown /\ p >= CopyFrom
    <3> HIDE DEF d, p, j
    <3>. QED
      BY <1>3, Screen
  <2>2. Rendered(beam.line)
    BY <1>3
  <2>3. Positioned(beam)
    BY <2>1, <2>2 DEF Rendered, Positioned
  <2>4. LineAt(beam) = line
    <3>1. ~(b.dot < LastShown) /\ ~(beam.dot < LastShown)
      BY <1>2, <2>1, Screen
    <3>. QED
      BY <1>3, <3>1, Zenon DEF LineAt
  <2>. QED
    BY <2>2, <2>3, <2>4
<1>5. Loads(d) <=> j = 0 \/ j = 8
  BY <1>2, <1>3, Screen, LoadTimes
<1>6. ~Draws(b) /\ (Preshifts(d) <=> j \in 0 .. 7) /\ d # LastShown + 1
  BY <1>3, Screen DEF Draws, Preshifts, Tile
<1>7. /\ p = Prefetch + 7 => Passed(beam) = 0
      /\ p = Prefetch + 15 => Passed(beam) = 1
  <2>1. ~(p <= LastShown)
    BY <1>2, <1>3, Screen
  <2>2. Passed(beam) = Ahead(p)
    BY <1>4, <2>1 DEF Passed
  <2>3. Ahead(p) = IF p < Prefetch + 8 THEN 0 ELSE IF p < Prefetch + 16 THEN 1 ELSE 2
    BY Screen DEF Ahead, Tile
  <2> HIDE DEF p
  <2>4. p = Prefetch + 7 => Ahead(p) = 0
    BY <2>3, Screen
  <2>5. p = Prefetch + 15 => Ahead(p) = 1
    BY <2>3, Screen
  <2>. QED
    BY <2>2, <2>4, <2>5
<1>8. StreamKept(shift, hor, ver, beam)
  BY DEF Scrolling
<1> HIDE DEF line
<1>9. /\ p \in Prefetch + 8 .. Prefetch + 15 =>
           \A i \in 8 - (p - (Prefetch + 8)) .. 15 - (p - (Prefetch + 8)) :
              shift[i] = Strip(hor, ver, i + (p - (Prefetch + 8)) - 8, line)
      /\ p >= Prefetch + 16 => \A i \in 1 .. 16 : shift[i] = Strip(hor, ver, i - 1, line)
  BY <1>4, <1>8 DEF StreamKept, Tile
<1> HIDE DEF p, d, j
<1>10. CASE j = 0
  <2>1. ShiftAt(b) = Shifted(LoadedAt(b)) /\ p = Prefetch + 7
    BY <1>3, <1>6, <1>10 DEF ShiftAt, d
  <2>2. \A i \in 1 .. 16 : LoadedAt(b)[i] = IF i <= 8 THEN shift[i] ELSE Dots(v, i - 9)
    BY <1>5, <1>6, <1>10, LoadedForm DEF d
  <2>3. v = TileAt(hor, ver, 0, line)
    BY <1>4, <1>7, <2>1, TileHere
  <2>4. ASSUME NEW i \in 8 .. 15 PROVE ShiftAt(b)[i] = Strip(hor, ver, i - 8, line)
    <3>1. ShiftAt(b)[i] = LoadedAt(b)[i + 1]
      BY <2>1, ShiftedForm
    <3>2. LoadedAt(b)[i + 1] = Dots(v, i + 1 - 9)
      BY <2>2
    <3> DEFINE c == i - 8
    <3>3. c \in 0 .. 7 /\ i + 1 - 9 = c /\ c = 8 * 0 + c
      OBVIOUS
    <3> HIDE DEF c
    <3>4. Strip(hor, ver, c, line) = Dots(TileAt(hor, ver, 0, line), c)
      BY <3>3, StripForm
    <3>. QED
      BY <2>3, <3>1, <3>2, <3>3, <3>4 DEF c
  <2>5. 8 - j = 8 /\ 15 - j = 15 /\ ~(d >= Prefetch + 16) /\ \A i \in 8 .. 15 : i + j - 8 = i - 8
    BY <1>3, <1>10
  <2>. QED
    BY <2>4, <2>5 DEF d, j, line
<1>11. CASE j \in 1 .. 7
  <2>1. ShiftAt(b) = Shifted(shift) /\ p = Prefetch + 8 + (j - 1)
    BY <1>3, <1>5, <1>6, <1>11 DEF ShiftAt, LoadedAt, d
  <2>2. \A i \in 8 - (j - 1) .. 15 - (j - 1) : shift[i] = Strip(hor, ver, i + (j - 1) - 8, line)
    <3>1. p \in Prefetch + 8 .. Prefetch + 15 /\ p - (Prefetch + 8) = j - 1
      BY <1>3, <1>11, <2>1
    <3>. QED
      BY <1>9, <3>1
  <2>3. ASSUME NEW i \in 8 - j .. 15 - j PROVE ShiftAt(b)[i] = Strip(hor, ver, i + j - 8, line)
    <3>1. i \in 1 .. 15 /\ i + 1 \in 8 - (j - 1) .. 15 - (j - 1) /\ (i + 1) + (j - 1) - 8 = i + j - 8
      BY <1>11
    <3>2. ShiftAt(b)[i] = shift[i + 1]
      BY <2>1, <3>1, ShiftedForm
    <3>3. shift[i + 1] = Strip(hor, ver, (i + 1) + (j - 1) - 8, line)
      BY <2>2, <3>1
    <3>. QED
      BY <3>1, <3>2, <3>3
  <2>4. ~(d >= Prefetch + 16)
    BY <1>3, <1>11
  <2>. QED
    BY <2>3, <2>4 DEF d, j, line
<1>12. CASE j = 8
  <2>1. ShiftAt(b) = LoadedAt(b) /\ p = Prefetch + 15
    BY <1>3, <1>6, <1>12 DEF ShiftAt, d
  <2>2. \A i \in 1 .. 16 : LoadedAt(b)[i] = IF i <= 8 THEN shift[i] ELSE Dots(v, i - 9)
    BY <1>5, <1>6, <1>12, LoadedForm DEF d
  <2>3. v = TileAt(hor, ver, 1, line)
    BY <1>4, <1>7, <2>1, TileHere
  <2>4. \A i \in 1 .. 8 : shift[i] = Strip(hor, ver, i - 1, line)
    <3>1. /\ p \in Prefetch + 8 .. Prefetch + 15 /\ p - (Prefetch + 8) = 7
          /\ 8 - 7 = 1 /\ 15 - 7 = 8 /\ \A i \in 1 .. 8 : i + 7 - 8 = i - 1
      BY <1>3, <2>1
    <3>2. \A i \in 8 - 7 .. 15 - 7 : shift[i] = Strip(hor, ver, i + 7 - 8, line)
      BY <1>9, <3>1
    <3>. QED
      BY <3>1, <3>2
  <2>5. ASSUME NEW i \in 1 .. 16 PROVE ShiftAt(b)[i] = Strip(hor, ver, i - 1, line)
    <3>1. CASE i <= 8
      BY <2>1, <2>2, <2>4, <3>1
    <3>2. CASE ~(i <= 8)
      <4>1. ShiftAt(b)[i] = Dots(v, i - 9)
        BY <2>1, <2>2, <3>2
      <4> DEFINE c == i - 9
                 n == i - 1
      <4>2. c \in 0 .. 7 /\ n = 8 * 1 + c
        BY <3>2
      <4> HIDE DEF c, n
      <4>3. Strip(hor, ver, n, line) = Dots(TileAt(hor, ver, 1, line), c)
        BY <4>2, StripForm
      <4>. QED
        BY <2>3, <4>1, <4>3 DEF c, n
    <3>. QED
      BY <3>1, <3>2
  <2>6. ~(d <= Prefetch + 15)
    BY <1>3, <1>12
  <2>. QED
    BY <2>5, <2>6 DEF d, j, line
<1>13. CASE j \in 9 .. 11
  <2>1. ShiftAt(b) = shift /\ p >= Prefetch + 16 /\ ~(d <= Prefetch + 15)
    BY <1>3, <1>5, <1>6, <1>13 DEF ShiftAt, LoadedAt, d
  <2>. QED
    BY <1>9, <2>1 DEF d, j, line
<1>. QED
  BY <1>3, <1>10, <1>11, <1>12, <1>13

LEMMA StreamWalks ==
  ASSUME ScrollTypeOK, Scrolling, NEW b \in Following(beam), Rendered(b.line)
  PROVE  StreamKept(ShiftAt(b), HorAt(b), VerAt(b), b)
<1>1. beam \in Places
  BY DEF ScrollTypeOK, Places
<1>2. b.dot \in 0 .. LastDot /\ b.line \in 0 .. PreRender
  BY <1>1, FollowingType DEF Places
<1> SUFFICES ASSUME HorAt(b) # None, VerAt(b) # None
             PROVE  StreamKept(ShiftAt(b), HorAt(b), VerAt(b), b)
  BY DEF StreamKept
<1>3. ASSUME b.line < Lines, b.dot <= LastShown
      PROVE  /\ HorAt(b) = hor /\ VerAt(b) = ver
             /\ \A i \in 1 .. 16 : b.dot + i - 1 < 8 * OnLine(b.dot) =>
                  ShiftAt(b)[i] = Strip(hor, ver, b.dot + i - 1, b.line)
  <2>1. ~CopiesHorizontal(b) /\ ~CopiesVertical(b)
    BY <1>2, <1>3, Screen DEF CopiesHorizontal, CopiesVertical
  <2>2. HorAt(b) = hor /\ VerAt(b) = ver
    BY <2>1 DEF HorAt, VerAt
  <2>. QED
    BY <1>3, <2>2, ShownWalks
<1>4. ASSUME b.dot >= Prefetch + 8
      PROVE  /\ HorAt(b) = hor /\ VerAt(b) = ver
             /\ b.dot <= Prefetch + 15 =>
                  \A i \in 8 - (b.dot - (Prefetch + 8)) .. 15 - (b.dot - (Prefetch + 8)) :
                     ShiftAt(b)[i] = Strip(hor, ver, i + (b.dot - (Prefetch + 8)) - 8, LineAt(b))
             /\ b.dot >= Prefetch + 16 =>
                  \A i \in 1 .. 16 : ShiftAt(b)[i] = Strip(hor, ver, i - 1, LineAt(b))
  <2>1. ~CopiesHorizontal(b) /\ ~CopiesVertical(b)
    BY <1>2, <1>4, Screen DEF CopiesHorizontal, CopiesVertical
  <2>2. HorAt(b) = hor /\ VerAt(b) = ver
    BY <2>1 DEF HorAt, VerAt
  <2>. QED
    BY <1>4, <2>2, AheadWalks
<1>5. b.dot \in Prefetch + 8 .. Prefetch + 15 => b.dot >= Prefetch + 8 /\ b.dot <= Prefetch + 15
  BY Screen
<1>6. b.dot >= Prefetch + 16 => b.dot >= Prefetch + 8
  BY <1>2, Screen
<1>. QED
  BY <1>3, <1>4, <1>5, <1>6 DEF StreamKept, Tile

\* A register access leaves the line alone, or gives it up.
LEMMA Undisturbed ==
  ASSUME Scrolling, Tracks', UNCHANGED <<v, hor, ver, latch, shift, beam>>
  PROVE  Scrolling'
  BY DEF Scrolling

LEMMA Disturbed ==
  ASSUME hor' = None, ver' = None, latch' = LatchOf(latch')
  PROVE  Scrolling'
  BY DEF Scrolling, Tracks, ColumnKept, RowKept, StreamKept, LatchOf

LEMMA DotScrolls ==
  ASSUME ScrollTypeOK, Scrolling, NEW b \in Following(beam), DotAt(b)
  PROVE  Scrolling'
<1>1. beam' = b /\ mask' = mask
  BY DotForm
<1>2. latch = LatchOf(latch)
  BY DEF Scrolling, LatchOf
<1>3. CASE Renders /\ Rendered(b.line)
  <2>1. v' = Walked(b) /\ latch' = LatchAt(b) /\ shift' = ShiftAt(b) /\ hor' = HorAt(b) /\ ver' = VerAt(b)
    BY <1>3, DotForm
  <2>2. Tracks'
    BY <1>1, <1>3 DEF Tracks, Renders
  <2>3. ColumnKept(v', hor', beam') /\ RowKept(v', ver', beam') /\ StreamKept(shift', hor', ver', beam')
    BY <1>1, <1>3, <2>1, ColumnWalks, RowWalks, StreamWalks
  <2>4. hor' # None => LatchKept(latch', v', beam')
    BY <1>1, <1>3, <2>1, LatchWalks
  <2>5. latch' = LatchOf(latch')
    <3>1. beam \in Places
      BY DEF ScrollTypeOK, Places
    <3>2. b \in Places
      BY <3>1, FollowingType DEF Places
    <3>. QED
      BY <2>1, <3>2, LatchShape, Zenon
  <2>. QED
    BY <2>2, <2>3, <2>4, <2>5 DEF Scrolling, LatchOf
<1>4. CASE Renders /\ ~Rendered(b.line)
  <2>1. v' = v /\ latch' = latch /\ shift' = shift /\ hor' = hor /\ ver' = ver
    BY <1>4, DotForm
  <2>2. Tracks'
    BY <1>1, <1>4 DEF Tracks, Renders
  <2>3. Passed(b) = Passed(beam)
    <3>1. beam \in Places
      BY DEF ScrollTypeOK, Places
    <3>2. /\ b.dot \in 0 .. LastDot /\ beam.dot \in 0 .. LastDot /\ beam.line \in 0 .. PreRender
          /\ b.dot # 0 => b.line = beam.line /\ b.dot = beam.dot + 1
          /\ b.dot = 0 => beam.dot = LastDot \/ (beam.dot = LastDot - 1 /\ beam.line = PreRender)
      BY <3>1, FollowingType DEF Places
    <3>3. Passed(b) = 2
      BY <1>4 DEF Passed
    <3>4. CASE b.dot # 0
      BY <1>4, <3>2, <3>3, <3>4 DEF Passed
    <3>5. CASE b.dot = 0
      BY <3>2, <3>3, <3>5, Screen DEF Passed, Ahead, Tile
    <3>. QED
      BY <3>4, <3>5
  <2>4. ColumnKept(v, hor, b)
    BY <2>3 DEF Scrolling, ColumnKept
  <2>5. RowKept(v, ver, b)
    BY <1>4 DEF RowKept, Positioned, Rendered
  <2>6. LatchKept(latch, v, b) /\ StreamKept(shift, hor, ver, b)
    BY <1>4 DEF LatchKept, StreamKept
  <2>. QED
    BY <1>1, <1>2, <2>1, <2>2, <2>4, <2>5, <2>6 DEF Scrolling, LatchOf
<1>5. CASE ~Renders
  <2>1. hor' = None /\ ver' = None /\ latch' = latch
    BY <1>5, DotForm DEF Scrolling, Tracks
  <2>. QED
    BY <1>2, <2>1, Disturbed
<1>. QED
  BY <1>3, <1>4, <1>5

LEMMA StepScrolling == ScrollTypes /\ Scrolling /\ [Next]_vars => Scrolling'
<1> SUFFICES ASSUME ScrollTypes, Scrolling, [Next]_vars PROVE Scrolling'
  OBVIOUS
<1>1. ScrollTypeOK
  BY DEF ScrollTypes
<1>2. latch = LatchOf(latch) /\ Tracks
  BY DEF Scrolling, LatchOf
<1>3. CASE Dot
  BY <1>1, <1>3, DotScrolls DEF Dot
<1>4. ASSUME NEW n \in {0, 1}, NEW d \in {0, 1}, WriteControl(n, n, d = 1) PROVE Scrolling'
  <2>1. UNCHANGED <<v, hor, ver, latch, shift, beam>> /\ mask' = mask
    BY <1>4 DEF WriteControl, pipeline
  <2>. QED
    BY <1>2, <2>1, Undisturbed DEF Tracks, Renders
<1>5. ASSUME NEW m \in Masks, WriteMask(m) PROVE Scrolling'
  <2>1. UNCHANGED <<v, latch, shift, beam>> /\ mask' = m
    BY <1>5 DEF WriteMask, pipeline
  <2>2. CASE m.bg \/ m.sp
    <3>1. UNCHANGED <<hor, ver>>
      BY <1>5, <2>2 DEF WriteMask
    <3>2. Tracks'
      BY <2>1, <2>2 DEF Tracks, Renders
    <3>. QED
      BY <2>1, <3>1, <3>2, Undisturbed
  <2>3. CASE ~(m.bg \/ m.sp)
    <3>1. hor' = None /\ ver' = None
      BY <1>5, <2>3 DEF WriteMask
    <3>. QED
      BY <1>2, <2>1, <3>1, Disturbed
  <2>. QED
    BY <2>2, <2>3
<1>6. ASSUME NEW byte \in Scrolls, WriteScroll(byte) PROVE Scrolling'
  <2>1. UNCHANGED <<v, hor, ver, latch, shift, beam>> /\ mask' = mask
    BY <1>6 DEF WriteScroll, pipeline
  <2>. QED
    BY <1>2, <2>1, Undisturbed DEF Tracks, Renders
<1>7. ASSUME NEW byte, WriteAddress(byte) PROVE Scrolling'
  <2>1. UNCHANGED <<latch, shift, beam, mask>>
    BY <1>7 DEF WriteAddress, pipeline
  <2>2. CASE ~w
    <3>1. UNCHANGED <<v, hor, ver>>
      BY <1>7, <2>2 DEF WriteAddress
    <3>. QED
      BY <1>2, <2>1, <3>1, Undisturbed DEF Tracks, Renders
  <2>3. CASE w
    <3>1. hor' = None /\ ver' = None
      BY <1>7, <2>3 DEF WriteAddress
    <3>. QED
      BY <1>2, <2>1, <3>1, Disturbed
  <2>. QED
    BY <2>2, <2>3
<1>8. CASE ReadStatus
  <2>1. UNCHANGED <<v, hor, ver, latch, shift, beam>> /\ mask' = mask
    BY <1>8 DEF ReadStatus, pipeline
  <2>. QED
    BY <1>2, <2>1, Undisturbed DEF Tracks, Renders
<1>9. CASE ReadData
  <2>1. hor' = None /\ ver' = None /\ latch' = latch
    BY <1>9 DEF ReadData, pipeline
  <2>. QED
    BY <1>2, <2>1, Disturbed
<1>10. CASE WriteData
  <2>1. hor' = None /\ ver' = None /\ latch' = latch
    BY <1>10 DEF WriteData, pipeline
  <2>. QED
    BY <1>2, <2>1, Disturbed
<1>11. CASE Reset
  <2>1. hor' = None /\ ver' = None /\ latch' = NoLatch
    BY <1>11 DEF Reset
  <2>2. latch' = LatchOf(latch')
    BY <2>1 DEF NoLatch, LatchOf
  <2>. QED
    BY <2>1, <2>2, Disturbed
<1>12. CASE UNCHANGED vars
  <2>1. UNCHANGED <<v, hor, ver, latch, shift, beam>> /\ mask' = mask
    BY <1>12 DEF vars
  <2>. QED
    BY <1>2, <2>1, Undisturbed DEF Tracks, Renders
<1>. QED
  BY <1>3, <1>4, <1>5, <1>6, <1>7, <1>8, <1>9, <1>10, <1>11, <1>12 DEF Next, Access

-----------------------------------------------------------------------------
(* Pixels. *)

\* A pixel of the strip is the one at the scroll position.
LEMMA PixelForm ==
  ASSUME NEW h \in Address, NEW r, NEW f \in Nat, NEW c \in Nat, NEW line
  PROVE  LET col == ColumnAt(h, f, c)
             row == RowAt(r, line)
             a == [cx |-> col.cx, nth |-> col.nth, cy |-> row.cy, ntv |-> row.ntv]
         IN  Strip(h, r, f + c, line)
               = [lo |-> <<NameByte(a), row.fy>>, hi |-> <<NameByte(a), row.fy>>,
                  palette |-> <<AttributeByte(a), Quadrant(a)>>, col |-> col.col]
<1> DEFINE col == ColumnAt(h, f, c)
           row == RowAt(r, line)
           a == [cx |-> col.cx, nth |-> col.nth, cy |-> row.cy, ntv |-> row.ntv]
           n == f + c
           u == TileAt(h, r, n \div Tile, line)
<1>1. /\ col.nth = Along(h, n \div Tile).nth /\ col.cx = Along(h, n \div Tile).cx
      /\ col.col = n % Tile
  BY ColumnForm
<1>2. Strip(h, r, n, line) = Dots(u, n % Tile)
  BY DEF Strip
<1> HIDE DEF col, row, n
<1>3. /\ u.cx = a.cx /\ u.nth = a.nth /\ u.cy = a.cy /\ u.ntv = a.ntv /\ u.fy = row.fy
  BY <1>1 DEF TileAt, row
<1> HIDE DEF u, a
<1>4. NameByte(u) = NameByte(a) /\ AttributeByte(u) = AttributeByte(a) /\ Quadrant(u) = Quadrant(a)
  BY <1>3 DEF NameByte, AttributeByte, Quadrant
<1>5. Strip(h, r, n, line)
        = [lo |-> <<NameByte(a), row.fy>>, hi |-> <<NameByte(a), row.fy>>,
           palette |-> <<AttributeByte(a), Quadrant(a)>>, col |-> col.col]
  BY <1>1, <1>2, <1>3, <1>4 DEF Dots
<1>. QED
  BY <1>5 DEF n, a, col, row

LEMMA DotPixel ==
  ASSUME ScrollTypeOK, Scrolling, NEW b \in Following(beam), DotAt(b),
         pixel' # None, hor' # None, ver' # None
  PROVE  /\ hor' \in Address /\ x' \in Nat /\ beam'.dot - 1 \in Nat
         /\ pixel' = Strip(hor', ver', x' + (beam'.dot - 1), beam'.line)
<1>1. beam \in Places /\ x \in 0 .. 7 /\ (hor = None \/ hor \in Address)
  BY DEF ScrollTypeOK, Places, Tile
<1>2. b.dot \in 0 .. LastDot /\ b.line \in 0 .. PreRender
  BY <1>1, FollowingType DEF Places
<1>3. Renders /\ Draws(b) /\ pixel' = PixelAt(LoadedAt(b)) /\ beam' = b /\ x' = x
  BY DotForm
<1>4. b.line < Lines /\ b.dot \in 1 .. LastShown /\ Rendered(b.line)
  BY <1>3 DEF Draws, Rendered
<1>5. ~CopiesHorizontal(b) /\ ~CopiesVertical(b)
  BY <1>2, <1>4, Screen DEF CopiesHorizontal, CopiesVertical
<1>6. hor' = hor /\ ver' = ver
  BY <1>3, <1>4, <1>5, DotForm DEF HorAt, VerAt
<1>7. hor # None /\ ver # None /\ hor \in Address
  BY <1>1, <1>6
<1>8. \A i \in 1 .. 16 : b.dot + i - 2 < 8 * OnLine(b.dot) =>
        LoadedAt(b)[i] = Strip(hor, ver, b.dot + i - 2, b.line)
  BY <1>3, <1>7, ShownLoaded
<1> DEFINE d == b.dot
           i == x + 1
<1>9. d \in Nat /\ d >= 1 /\ OnLine(d) = 2 + ((d - 1) \div 8)
  BY <1>4, Screen DEF OnLine, Tile
<1> HIDE DEF d
<1>10. i \in 1 .. 16 /\ d + i - 2 < 8 * OnLine(d) /\ d + i - 2 = x + (d - 1) /\ d - 1 \in Nat
  BY <1>1, <1>9
<1> HIDE DEF i
<1>11. LoadedAt(b)[i] = Strip(hor, ver, d + i - 2, b.line)
  BY <1>8, <1>10 DEF d
<1>12. pixel' = LoadedAt(b)[i]
  BY <1>3 DEF PixelAt, i
<1>. QED
  BY <1>1, <1>3, <1>6, <1>7, <1>10, <1>11, <1>12 DEF d

LEMMA StepPixels == ScrollTypes /\ Scrolling /\ PixelsScrolled /\ [Next]_vars => PixelsScrolled'
<1> SUFFICES ASSUME ScrollTypes, Scrolling, PixelsScrolled, [Next]_vars,
                    pixel' # None, hor' # None, ver' # None
             PROVE  PixelsScrolled'
  BY DEF PixelsScrolled
<1>1. CASE Dot
  <2>1. PICK b \in Following(beam) : DotAt(b)
    BY <1>1 DEF Dot
  <2>2. PICK h, r, f, c, line :
          h = hor' /\ r = ver' /\ f = x' /\ c = beam'.dot - 1 /\ line = beam'.line
    OBVIOUS
  <2>3. h \in Address /\ f \in Nat /\ c \in Nat /\ pixel' = Strip(h, r, f + c, line)
    BY <2>1, <2>2, DotPixel DEF ScrollTypes
  <2>4. LET col == ColumnAt(h, f, c)
            row == RowAt(r, line)
            a == [cx |-> col.cx, nth |-> col.nth, cy |-> row.cy, ntv |-> row.ntv]
        IN  Strip(h, r, f + c, line)
              = [lo |-> <<NameByte(a), row.fy>>, hi |-> <<NameByte(a), row.fy>>,
                 palette |-> <<AttributeByte(a), Quadrant(a)>>, col |-> col.col]
    BY <2>3, PixelForm
  <2>5. LET col == ColumnAt(h, f, c)
            row == RowAt(r, line)
            a == [cx |-> col.cx, nth |-> col.nth, cy |-> row.cy, ntv |-> row.ntv]
        IN  pixel'
              = [lo |-> <<NameByte(a), row.fy>>, hi |-> <<NameByte(a), row.fy>>,
                 palette |-> <<AttributeByte(a), Quadrant(a)>>, col |-> col.col]
    BY <2>3, <2>4, Zenon
  <2>. QED
    BY <2>2, <2>5, Zenon DEF PixelsScrolled
<1>2. CASE Access \/ Reset
  <2>1. pixel' = None
    BY <1>2 DEF Access, Reset, WriteControl, WriteMask, WriteScroll, WriteAddress, ReadStatus,
                ReadData, WriteData
  <2>. QED
    BY <2>1
<1>3. CASE UNCHANGED vars
  BY <1>3 DEF vars, PixelsScrolled
<1>. QED
  BY <1>1, <1>2, <1>3 DEF Next

LEMMA InitScrolling == Init => Scrolling /\ PixelsScrolled
<1> SUFFICES ASSUME Init PROVE Scrolling /\ PixelsScrolled
  OBVIOUS
<1>1. hor = None /\ ver = None /\ pixel = None /\ latch = NoLatch
  BY DEF Init
<1>. QED
  BY <1>1 DEF Scrolling, PixelsScrolled, Tracks, ColumnKept, RowKept, StreamKept, NoLatch

\* Every pixel of a line that nothing disturbed shows the tile, row, column and palette at the
\* scroll position that the line and the picture started with (Ppu::tick, Background::get_pixel).
THEOREM PixelsKept == Spec => []PixelsScrolled
<1>1. Init => ScrollTypes /\ Scrolling /\ PixelsScrolled
  BY InitTypes, InitScrolling
<1>2. ScrollTypes /\ Scrolling /\ PixelsScrolled /\ [Next]_vars
        => (ScrollTypes /\ Scrolling /\ PixelsScrolled)'
  BY StepTypes, StepScrolling, StepPixels
<1>. QED
  BY <1>1, <1>2, PTL DEF Spec
=============================================================================

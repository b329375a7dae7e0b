---------------------------- MODULE SpritesProofs -----------------------------
(***************************************************************************)
(* Proofs about the sprites: the evaluation picks the first Slots sprites  *)
(* in range in the order of OAM and reaches the last sprite in its dots,   *)
(* for any number of sprites, slots and lines; what it picks is what the   *)
(* next line shows, and sprite 0 hits where it is shown.                   *)
(***************************************************************************)
EXTENDS Sprites, FiniteSetTheorems, WellFoundedInduction, TLAPS

-----------------------------------------------------------------------------
(* Ranks: how many elements of a set come before a number. *)

Places == 0 .. Count - 1

LEMMA PlacesFinite == ASSUME NEW S \in SUBSET Places PROVE IsFiniteSet(S)
<1>1. IsFiniteSet(Places)
  BY SpritesAssumption, FS_Interval DEF Places
<1> QED
  BY <1>1, FS_Subset

\* The elements of S before n, of which Rank counts the number.
LEMMA BeforeFinite ==
  ASSUME NEW S \in SUBSET Places, NEW n PROVE IsFiniteSet({k \in S : k < n})
<1>1. IsFiniteSet(S) /\ {k \in S : k < n} \in SUBSET S
  BY PlacesFinite
<1> QED
  BY <1>1, FS_Subset

LEMMA RankType == ASSUME NEW S \in SUBSET Places, NEW n PROVE Rank(n, S) \in Nat
<1>1. IsFiniteSet({k \in S : k < n})
  BY BeforeFinite
<1> QED
  BY <1>1, FS_CardinalityType DEF Rank

LEMMA RankZero == ASSUME NEW S \in SUBSET Places PROVE Rank(0, S) = 0
<1>1. \A k \in S : ~(k < 0)
  BY SpritesAssumption DEF Places
<1>2. {k \in S : k < 0} = {}
  BY <1>1
<1> QED
  BY <1>2, FS_EmptySet DEF Rank

\* A step over n counts n if it is an element.
LEMMA RankStep ==
  ASSUME NEW S \in SUBSET Places, NEW n \in Places
  PROVE  Rank(n + 1, S) = IF n \in S THEN Rank(n, S) + 1 ELSE Rank(n, S)
<1>1. IsFiniteSet({k \in S : k < n})
  BY BeforeFinite
<1>2. n \notin {k \in S : k < n}
  BY SpritesAssumption DEF Places
<1>3. \A k \in S : k < n + 1 <=> k < n \/ k = n
  BY SpritesAssumption DEF Places
<1>4. CASE n \in S
  <2>1. {k \in S : k < n + 1} = {k \in S : k < n} \cup {n}
    BY <1>3, <1>4
  <2> QED
    BY <1>1, <1>2, <1>4, <2>1, FS_AddElement DEF Rank
<1>5. CASE n \notin S
  <2>1. {k \in S : k < n + 1} = {k \in S : k < n}
    BY <1>3, <1>5
  <2> QED
    BY <1>5, <2>1 DEF Rank
<1> QED
  BY <1>4, <1>5

LEMMA RankAll == ASSUME NEW S \in SUBSET Places PROVE Rank(Count, S) = Cardinality(S)
<1>1. \A k \in S : k < Count
  BY SpritesAssumption DEF Places
<1>2. {k \in S : k < Count} = S
  BY <1>1
<1> QED
  BY <1>2 DEF Rank

LEMMA RankMonotone ==
  ASSUME NEW S \in SUBSET Places, NEW m \in Nat, NEW n \in Nat, m <= n
  PROVE  Rank(m, S) <= Rank(n, S)
<1>1. IsFiniteSet({k \in S : k < n})
  BY BeforeFinite
<1>2. \A k \in S : k < m => k < n
  BY SpritesAssumption DEF Places
<1>3. {k \in S : k < m} \in SUBSET {k \in S : k < n}
  BY <1>2
<1> QED
  BY <1>1, <1>3, FS_Subset DEF Rank

\* No two elements have one rank.
LEMMA RankInjective ==
  ASSUME NEW S \in SUBSET Places, NEW m \in S, NEW n \in S, Rank(m, S) = Rank(n, S)
  PROVE  m = n
<1>0. m \in Places /\ n \in Places /\ m \in Nat /\ n \in Nat
  BY SpritesAssumption DEF Places
<1>1. ASSUME NEW a \in S, NEW b \in S, a < b PROVE Rank(a, S) < Rank(b, S)
  <2>1. a \in Places /\ a \in Nat /\ b \in Nat /\ a + 1 <= b /\ a + 1 \in Nat
    BY <1>1, SpritesAssumption DEF Places
  <2>2. Rank(a + 1, S) = Rank(a, S) + 1
    BY <2>1, RankStep
  <2> QED
    BY <2>1, <2>2, RankMonotone, RankType
<1> QED
  BY <1>0, <1>1, RankType

-----------------------------------------------------------------------------
(* The inductive invariant. *)

Evals == [found : 0 .. Slots, n : 0 .. Count, m : 0 .. 3, cycle : 0 .. 7, inRange : BOOLEAN]

Buffers(b) ==
  /\ b = [buf |-> [i \in 0 .. Slots - 1 |-> b.buf[i]], count |-> b.count, zero |-> b.zero]
  /\ b.count \in 0 .. Slots /\ b.zero \in 0 .. Slots

TypeOK ==
  /\ oam \in [OamBytes -> Bytes] /\ addr \in OamBytes
  /\ secondary \in [0 .. 4 * Slots - 1 -> Bytes]
  /\ eval \in Evals
  /\ Buffers(next) /\ Buffers(shown) /\ ready \in BOOLEAN
  /\ mask \in [bg : BOOLEAN, sp : BOOLEAN, bgLeft : BOOLEAN, spLeft : BOOLEAN]
  /\ ctrl \in [height : {Small, 2 * Small}, table : 0 .. 1]
  /\ beam \in [line : 0 .. PreRender, dot : 0 .. SwapDot]
  /\ flags \in [hit : BOOLEAN, overflow : BOOLEAN]
  /\ home \in BOOLEAN

\* OAMADDR is where the history has it, and OAM holds the page.
Homed == (home => addr = 0) /\ OamIsPage

\* The sprites on the line under evaluation, and the dots of the evaluation that are over.
Here == InRange(beam.line)

LastEval == Slots + EvalDots

Spent == IF beam.dot <= Slots THEN 0 ELSE IF beam.dot <= LastEval THEN beam.dot - Slots ELSE EvalDots

\* Nothing disturbs a line that is planned.
Undisturbed ==
  /\ Renders(mask) /\ beam.line < Visible /\ beam.dot < SwapDot
  /\ plan.list = Wanted(beam.line) /\ plan.overflow \in BOOLEAN
  /\ beam.dot <= Slots => eval = Idle

\* A sprite that is taken costs eight dots, and any other two.
InTime ==
  eval.n < Count =>
    IF eval.found < Slots THEN Spent = 6 * eval.found + 2 * eval.n + eval.cycle
    ELSE \/ Spent = 6 * Slots + 2 * eval.n
         \/ /\ Spent = 6 * Slots + 2 * eval.n + 1
            /\ eval.inRange <=> OnLine(oam[4 * eval.n + eval.m], beam.line)

\* As many are found as are on the line, until the slots are full.
Ranked ==
  eval.found < Slots =>
    /\ Rank(eval.n, Here) = eval.found /\ eval.m = 0
    /\ plan.overflow <=> flags.overflow \/ ScanFinds(beam.line)

\* What the scan behind sprite last still finds from sprite n on.
Finds(last, n) ==
  \E q \in n .. Count - 1 : OnLine(oam[4 * q + (((q - last) - 1) % 4)], beam.line)

Scanning ==
  eval.found = Slots =>
    /\ eval.cycle = 0
    /\ \E last \in Here :
         /\ last < eval.n /\ Rank(last, Here) = Slots - 1 /\ eval.m = ((eval.n - last) - 1) % 4
         /\ plan.overflow <=> flags.overflow \/ Finds(last, eval.n)

\* The slots hold the sprites found, in their order, and the next one as far as it was copied.
Holds(slot, p) == \A b \in 0 .. 3 : secondary[4 * slot + b] = oam[4 * p + b]

Kept == \A i \in 0 .. eval.found - 1 : \E p \in Here : Rank(p, Here) = i /\ Holds(i, p)

Taking ==
  eval.n < Count /\ eval.found < Slots =>
    /\ eval.cycle >= 1 => (eval.inRange <=> eval.n \in Here)
    /\ eval.cycle >= 2 => eval.inRange
    /\ \A b \in 0 .. 3 :
         2 * b + 2 <= eval.cycle => secondary[4 * eval.found + b] = oam[4 * eval.n + b]

\* What the line puts into the buffer.
Buffered ==
  /\ next.zero = IF eval.n > 0 /\ 0 \in Here THEN 0 ELSE NoSlot
  /\ beam.dot >= LastEval => next.count = eval.found
  /\ \A i \in 0 .. eval.found - 1 :
       LastEval + 1 + i <= beam.dot => next.buf[i] = FetchedSlot(i, beam.line)

Planned ==
  plan # None => Undisturbed /\ InTime /\ Ranked /\ Scanning /\ Kept /\ Taking /\ Buffered

\* The buffer being drawn holds what is due, and sprite 0 is where its test looks for it.
Listed ==
  /\ DOMAIN due.list = 0 .. shown.count - 1
  /\ \A i \in 0 .. shown.count - 1 : /\ due.list[i].entry = shown.buf[i] /\ shown.buf[i] # None
                                     /\ due.list[i].sprite = 0 <=> i = shown.zero
  /\ shown.zero # NoSlot => shown.zero < shown.count

ZeroOnLine ==
  beam.line < Visible /\ shown.zero # NoSlot =>
    IF beam.dot = SwapDot THEN OnLine(due.y, beam.line)
    ELSE beam.line > 0 => OnLine(due.y, beam.line - 1)

Shows == due # None => Listed /\ ZeroOnLine

\* The hit flag is down from the pre-render line to the first dot.
Lowered == beam.line = PreRender \/ (beam.line = 0 /\ beam.dot = 0) => ~flags.hit

Inv == TypeOK /\ Homed /\ Planned /\ Shows /\ Lowered

-----------------------------------------------------------------------------
(* Types. *)

LEMMA Sizes ==
  /\ Count \in Nat /\ Slots \in Nat /\ EvalDots \in Nat /\ Visible \in Nat /\ Top \in Nat /\ Small \in Nat
  /\ Count > 0 /\ Slots > 0 /\ EvalDots > 0 /\ Visible > 0 /\ Small > 0
  /\ Visible < Top /\ Slots < Count
  /\ 6 * Slots + 2 * Count <= EvalDots
BY SpritesAssumption

LEMMA TypeInit == Init => TypeOK
<1> SUFFICES ASSUME Init PROVE TypeOK
  OBVIOUS
<1>1. oam \in [OamBytes -> Bytes] /\ addr \in OamBytes
  BY Sizes DEF Init, OamBytes, Bytes
<1>2. secondary \in [0 .. 4 * Slots - 1 -> Bytes]
  BY Sizes DEF Init, Bytes
<1>3. eval \in Evals
  BY Sizes DEF Init, Idle, Evals
<1>4. Buffers(EmptyBuffers)
  <2>1. EmptyBuffers.count = 0 /\ EmptyBuffers.zero = Slots
    BY DEF EmptyBuffers, NoSlot
  <2>2. EmptyBuffers.buf = [i \in 0 .. Slots - 1 |-> EmptyBuffers.buf[i]]
    BY DEF EmptyBuffers
  <2>3. EmptyBuffers = [buf |-> EmptyBuffers.buf, count |-> EmptyBuffers.count, zero |-> EmptyBuffers.zero]
    BY DEF EmptyBuffers
  <2> QED
    BY <2>1, <2>2, <2>3, Sizes DEF Buffers
<1>5. beam \in [line : 0 .. PreRender, dot : 0 .. SwapDot]
  BY Sizes DEF Init, PreRender, SwapDot
<1>6. mask \in [bg : BOOLEAN, sp : BOOLEAN, bgLeft : BOOLEAN, spLeft : BOOLEAN]
  BY DEF Init
<1>7. ctrl \in [height : {Small, 2 * Small}, table : 0 .. 1]
  BY Sizes DEF Init
<1>8. /\ flags \in [hit : BOOLEAN, overflow : BOOLEAN] /\ home \in BOOLEAN
      /\ next = EmptyBuffers /\ shown = EmptyBuffers /\ ready \in BOOLEAN
  BY DEF Init
<1> QED
  BY <1>1, <1>2, <1>3, <1>4, <1>5, <1>6, <1>7, <1>8 DEF TypeOK

LEMMA MovedType ==
  ASSUME NEW b \in [line : 0 .. PreRender, dot : 0 .. SwapDot]
  PROVE  Moved(b) \in [line : 0 .. PreRender, dot : 0 .. SwapDot]
BY Sizes DEF Moved, PreRender, SwapDot

\* An evaluation is its five fields.
EvalOf(found, n, m, cycle, inRange) ==
  [found |-> found, n |-> n, m |-> m, cycle |-> cycle, inRange |-> inRange]

LEMMA EvalFields ==
  ASSUME NEW e \in Evals
  PROVE  /\ e = EvalOf(e.found, e.n, e.m, e.cycle, e.inRange)
         /\ e.found \in Nat /\ e.found <= Slots /\ e.n \in Nat /\ e.n <= Count /\ e.m \in 0 .. 3
         /\ e.cycle \in 0 .. 7 /\ e.inRange \in BOOLEAN
BY Sizes DEF Evals, EvalOf

LEMMA EvalOfType ==
  ASSUME NEW f \in Nat, f <= Slots, NEW n \in Nat, n <= Count, NEW m \in 0 .. 3, NEW c \in 0 .. 7,
         NEW r \in BOOLEAN
  PROVE  EvalOf(f, n, m, c, r) \in Evals
BY Sizes DEF Evals, EvalOf

\* What each step of the evaluation makes of it.
LEMMA StepsOf ==
  ASSUME NEW f, NEW n, NEW m, NEW c, NEW r, NEW line
  PROVE  LET e == EvalOf(f, n, m, c, r)
         IN  /\ ScanRead(e, line) = EvalOf(f, n, m, c, OnLine(oam[4 * n + m], line))
             /\ ScanStep(e) = EvalOf(f, n + 1, (m + 1) % 4, c, r)
             /\ ReadY(e, line) = EvalOf(f, n, m, 1, OnLine(oam[4 * n], line))
             /\ Skip(e) = EvalOf(f, n + 1, m, 0, r)
             /\ Taken(e) = EvalOf(f + 1, n + 1, m, 0, r)
             /\ [e EXCEPT !.cycle = 2] = EvalOf(f, n, m, 2, r)
             /\ [e EXCEPT !.cycle = @ + 1] = EvalOf(f, n, m, c + 1, r)
<1> DEFINE e == EvalOf(f, n, m, c, r)
<1>1. e.found = f /\ e.n = n /\ e.m = m /\ e.cycle = c /\ e.inRange = r
  BY DEF EvalOf
<1>2. ScanRead(e, line) = EvalOf(f, n, m, c, OnLine(oam[4 * n + m], line))
  BY <1>1 DEF EvalOf, ScanRead
<1>3. ScanStep(e) = EvalOf(f, n + 1, (m + 1) % 4, c, r)
  <2>1. [e EXCEPT !.n = @ + 1] = EvalOf(f, n + 1, m, c, r)
    BY DEF EvalOf
  <2>2. [EvalOf(f, n + 1, m, c, r) EXCEPT !.m = (@ + 1) % 4] = EvalOf(f, n + 1, (m + 1) % 4, c, r)
    BY DEF EvalOf
  <2> QED
    BY <2>1, <2>2 DEF ScanStep
<1>4. ReadY(e, line) = EvalOf(f, n, m, 1, OnLine(oam[4 * n], line))
  <2>1. [e EXCEPT !.inRange = OnLine(oam[4 * n], line)] = EvalOf(f, n, m, c, OnLine(oam[4 * n], line))
    BY DEF EvalOf
  <2>2. [EvalOf(f, n, m, c, OnLine(oam[4 * n], line)) EXCEPT !.cycle = 1]
          = EvalOf(f, n, m, 1, OnLine(oam[4 * n], line))
    BY DEF EvalOf
  <2> QED
    BY <1>1, <2>1, <2>2 DEF ReadY
<1>5. Skip(e) = EvalOf(f, n + 1, m, 0, r)
  <2>1. [e EXCEPT !.n = @ + 1] = EvalOf(f, n + 1, m, c, r)
    BY DEF EvalOf
  <2>2. [EvalOf(f, n + 1, m, c, r) EXCEPT !.cycle = 0] = EvalOf(f, n + 1, m, 0, r)
    BY DEF EvalOf
  <2> QED
    BY <2>1, <2>2 DEF Skip
<1>6. Taken(e) = EvalOf(f + 1, n + 1, m, 0, r)
  <2>1. [e EXCEPT !.n = @ + 1] = EvalOf(f, n + 1, m, c, r)
    BY DEF EvalOf
  <2>2. [EvalOf(f, n + 1, m, c, r) EXCEPT !.cycle = 0] = EvalOf(f, n + 1, m, 0, r)
    BY DEF EvalOf
  <2>3. [EvalOf(f, n + 1, m, 0, r) EXCEPT !.found = @ + 1] = EvalOf(f + 1, n + 1, m, 0, r)
    BY DEF EvalOf
  <2> QED
    BY <2>1, <2>2, <2>3 DEF Taken
<1>7. /\ [e EXCEPT !.cycle = 2] = EvalOf(f, n, m, 2, r)
      /\ [e EXCEPT !.cycle = @ + 1] = EvalOf(f, n, m, c + 1, r)
  BY DEF EvalOf
<1> QED
  BY <1>2, <1>3, <1>4, <1>5, <1>6, <1>7

LEMMA Steps ==
  ASSUME NEW e \in Evals, NEW line
  PROVE  /\ ScanRead(e, line) = EvalOf(e.found, e.n, e.m, e.cycle, OnLine(oam[4 * e.n + e.m], line))
         /\ ScanStep(e) = EvalOf(e.found, e.n + 1, (e.m + 1) % 4, e.cycle, e.inRange)
         /\ ReadY(e, line) = EvalOf(e.found, e.n, e.m, 1, OnLine(oam[4 * e.n], line))
         /\ Skip(e) = EvalOf(e.found, e.n + 1, e.m, 0, e.inRange)
         /\ Taken(e) = EvalOf(e.found + 1, e.n + 1, e.m, 0, e.inRange)
         /\ [e EXCEPT !.cycle = 2] = EvalOf(e.found, e.n, e.m, 2, e.inRange)
         /\ [e EXCEPT !.cycle = @ + 1] = EvalOf(e.found, e.n, e.m, e.cycle + 1, e.inRange)
<1>1. e = EvalOf(e.found, e.n, e.m, e.cycle, e.inRange)
  BY EvalFields
<1> QED
  BY <1>1, StepsOf

LEMMA EvaluatedType ==
  ASSUME NEW e \in Evals, e.n < Count, NEW odd \in BOOLEAN, NEW line
  PROVE  Evaluated(e, odd, line) \in Evals
<1>0. /\ e.found \in Nat /\ e.found <= Slots /\ e.n \in Nat /\ e.n <= Count /\ e.m \in 0 .. 3
      /\ e.cycle \in 0 .. 7 /\ e.inRange \in BOOLEAN
  BY Sizes DEF Evals
<1>1. OnLine(oam[4 * e.n], line) \in BOOLEAN /\ OnLine(oam[4 * e.n + e.m], line) \in BOOLEAN
  BY DEF OnLine
<1>2. ScanRead(e, line) \in Evals
  <2>1. ScanRead(e, line) = EvalOf(e.found, e.n, e.m, e.cycle, OnLine(oam[4 * e.n + e.m], line))
    BY Steps
  <2> QED
    BY <1>0, <1>1, <2>1, EvalOfType
<1>3. ScanStep(e) \in Evals
  <2>1. e.n + 1 \in Nat /\ e.n + 1 <= Count /\ (e.m + 1) % 4 \in 0 .. 3
    BY <1>0, Sizes
  <2>2. ScanStep(e) = EvalOf(e.found, e.n + 1, (e.m + 1) % 4, e.cycle, e.inRange)
    BY Steps
  <2> QED
    BY <1>0, <2>1, <2>2, EvalOfType
<1>4. ReadY(e, line) \in Evals
  <2>1. ReadY(e, line) = EvalOf(e.found, e.n, e.m, 1, OnLine(oam[4 * e.n], line))
    BY Steps
  <2> QED
    BY <1>0, <1>1, <2>1, EvalOfType
<1>5. Skip(e) \in Evals
  <2>1. e.n + 1 \in Nat /\ e.n + 1 <= Count
    BY <1>0, Sizes
  <2>2. Skip(e) = EvalOf(e.found, e.n + 1, e.m, 0, e.inRange)
    BY Steps
  <2> QED
    BY <1>0, <2>1, <2>2, EvalOfType
<1>6. e.found < Slots => Taken(e) \in Evals
  <2> SUFFICES ASSUME e.found < Slots PROVE Taken(e) \in Evals
    OBVIOUS
  <2>1. e.n + 1 \in Nat /\ e.n + 1 <= Count /\ e.found + 1 \in Nat /\ e.found + 1 <= Slots
    BY <1>0, Sizes
  <2>2. Taken(e) = EvalOf(e.found + 1, e.n + 1, e.m, 0, e.inRange)
    BY Steps
  <2> QED
    BY <1>0, <2>1, <2>2, EvalOfType
<1>7. e.cycle < 7 => [e EXCEPT !.cycle = @ + 1] \in Evals
  <2>1. e.cycle < 7 => e.cycle + 1 \in 0 .. 7
    BY <1>0
  <2>2. [e EXCEPT !.cycle = @ + 1] = EvalOf(e.found, e.n, e.m, e.cycle + 1, e.inRange)
    BY Steps
  <2> QED
    BY <1>0, <2>1, <2>2, EvalOfType
<1>8. [e EXCEPT !.cycle = 2] \in Evals
  <2>1. [e EXCEPT !.cycle = 2] = EvalOf(e.found, e.n, e.m, 2, e.inRange)
    BY Steps
  <2> QED
    BY <1>0, <2>1, EvalOfType
<1>9. CASE e.found >= Slots
  BY <1>0, <1>2, <1>3, <1>9, Sizes DEF Evaluated
<1>10. CASE e.found < Slots
  BY <1>0, <1>4, <1>5, <1>6, <1>7, <1>8, <1>10, Sizes DEF Evaluated
<1> QED
  BY <1>0, <1>9, <1>10, Sizes

-----------------------------------------------------------------------------
(* While OAM, the control register and the line are the same, so is what the line has to show. *)

LEMMA SameLine ==
  ASSUME oam' = oam, ctrl' = ctrl, beam'.line = beam.line
  PROVE  /\ Here' = Here /\ Wanted(beam.line)' = Wanted(beam.line)
         /\ ScanFinds(beam.line)' = ScanFinds(beam.line)
<1>1. \A y, line : OnLine(y, line)' = OnLine(y, line)
  BY DEF OnLine
<1>2. InRange(beam.line)' = InRange(beam.line)
  BY <1>1 DEF InRange
<1>3. \A n : OfSprite(n, beam.line)' = OfSprite(n, beam.line)
  BY DEF OfSprite, Entry, Pattern, Row
<1>4. Wanted(beam.line)' = Wanted(beam.line)
  BY <1>2, <1>3 DEF Wanted
<1>5. ScanFinds(beam.line)' = ScanFinds(beam.line)
  BY <1>1, <1>2 DEF ScanFinds
<1> QED
  BY <1>2, <1>4, <1>5 DEF Here

LEMMA SameSlot ==
  ASSUME secondary' = secondary, ctrl' = ctrl, beam'.line = beam.line, NEW i
  PROVE  FetchedSlot(i, beam.line)' = FetchedSlot(i, beam.line)
BY DEF FetchedSlot, Entry, Pattern, Row

LEMMA SameFinds ==
  ASSUME oam' = oam, ctrl' = ctrl, beam'.line = beam.line, NEW last, NEW n
  PROVE  Finds(last, n)' = Finds(last, n)
BY DEF Finds, OnLine

\* A register write that leaves the line and its evaluation alone leaves the plan true.
LEMMA PlannedKept ==
  ASSUME Planned, ctrl' = ctrl, beam' = beam, oam' = oam,
         eval' = eval, secondary' = secondary, next' = next, flags' = flags,
         plan' = plan, plan # None => Renders(mask')
  PROVE  Planned'
<1> SUFFICES ASSUME plan # None
             PROVE  (Undisturbed /\ InTime /\ Ranked /\ Scanning /\ Kept /\ Taking /\ Buffered)'
  BY DEF Planned
<1>0. Undisturbed /\ InTime /\ Ranked /\ Scanning /\ Kept /\ Taking /\ Buffered
  BY DEF Planned
<1>1. beam'.line = beam.line /\ beam'.dot = beam.dot
  OBVIOUS
<1>2. /\ Here' = Here /\ Wanted(beam.line)' = Wanted(beam.line)
      /\ ScanFinds(beam.line)' = ScanFinds(beam.line)
  BY <1>1, SameLine
<1>3. Undisturbed'
  BY <1>0, <1>2 DEF Undisturbed
<1>4. InTime'
  BY <1>0 DEF InTime, Spent, OnLine
<1>5. Ranked'
  BY <1>0, <1>2 DEF Ranked
<1>6. Scanning'
  BY <1>0, <1>1, <1>2, SameFinds DEF Scanning
<1>7. Kept'
  BY <1>0, <1>2 DEF Kept, Holds
<1>8. Taking'
  BY <1>0, <1>2 DEF Taking
<1>9. Buffered'
  BY <1>0, <1>1, <1>2, SameSlot DEF Buffered
<1> QED
  BY <1>3, <1>4, <1>5, <1>6, <1>7, <1>8, <1>9

LEMMA ShowsKept ==
  ASSUME Shows, ctrl'.height = ctrl.height, beam' = beam, shown' = shown, due' = due
  PROVE  Shows'
<1>1. \A y, line : OnLine(y, line)' = OnLine(y, line)
  BY DEF OnLine
<1>2. CASE due = None
  BY <1>2 DEF Shows
<1>3. CASE due # None
  <2>1. Listed /\ ZeroOnLine
    BY <1>3 DEF Shows
  <2>2. Listed'
    BY <2>1 DEF Listed
  <2>3. ZeroOnLine'
    BY <2>1, <1>1 DEF ZeroOnLine
  <2> QED
    BY <2>2, <2>3 DEF Shows
<1> QED
  BY <1>2, <1>3

LEMMA LoweredKept == ASSUME Lowered, beam' = beam, flags' = flags PROVE Lowered'
BY DEF Lowered

LEMMA MaskKeeps == ASSUME Inv, NEW m \in Masks, WriteMask(m) PROVE Inv'
<1>1. TypeOK'
  BY InputsAssumption DEF Inv, TypeOK, WriteMask, pipeline
<1>2. Homed'
  BY DEF Inv, Homed, OamIsPage, WriteMask
<1>3. Planned'
  <2>1. CASE plan' = None
    BY <2>1 DEF Planned
  <2>2. CASE plan' # None
    <3>1. plan' = plan /\ Renders(mask')
      BY <2>2 DEF WriteMask
    <3> QED
      BY <3>1, PlannedKept DEF Inv, WriteMask, pipeline
  <2> QED
    BY <2>1, <2>2
<1>4. Shows'
  BY ShowsKept DEF Inv, WriteMask, pipeline
<1>5. Lowered'
  BY LoweredKept DEF Inv, WriteMask
<1> QED
  BY <1>1, <1>2, <1>3, <1>4, <1>5 DEF Inv

LEMMA ControlKeeps == ASSUME Inv, NEW c \in Controls, WriteControl(c) PROVE Inv'
<1>1. TypeOK'
  BY InputsAssumption DEF Inv, TypeOK, WriteControl, pipeline
<1>2. Homed'
  BY DEF Inv, Homed, OamIsPage, WriteControl
<1>3. Planned'
  <2>1. CASE plan' = None
    BY <2>1 DEF Planned
  <2>2. CASE plan' # None
    <3>1. plan' = plan /\ ctrl' = ctrl /\ mask' = mask
      BY <2>2 DEF WriteControl
    <3>2. plan # None => Renders(mask')
      BY <3>1 DEF Inv, Planned, Undisturbed
    <3> QED
      BY <3>1, <3>2, PlannedKept DEF Inv, WriteControl, pipeline
  <2> QED
    BY <2>1, <2>2
<1>4. Shows'
  <2>1. CASE due' = None
    BY <2>1 DEF Shows
  <2>2. CASE due' # None
    <3>1. due' = due /\ ctrl'.height = ctrl.height
      BY <2>2 DEF WriteControl
    <3> QED
      BY <3>1, ShowsKept DEF Inv, WriteControl, pipeline
  <2> QED
    BY <2>1, <2>2
<1>5. Lowered'
  BY LoweredKept DEF Inv, WriteControl
<1> QED
  BY <1>1, <1>2, <1>3, <1>4, <1>5 DEF Inv

LEMMA AddressKeeps == ASSUME Inv, NEW a \in Addresses, WriteOamAddress(a) PROVE Inv'
<1>1. TypeOK'
  BY InputsAssumption DEF Inv, TypeOK, WriteOamAddress, pipeline
<1>2. Homed'
  BY DEF Inv, Homed, OamIsPage, WriteOamAddress
<1>3. Planned'
  <2>1. plan # None => Renders(mask')
    BY DEF Inv, Planned, Undisturbed, WriteOamAddress
  <2> QED
    BY <2>1, PlannedKept DEF Inv, WriteOamAddress, pipeline
<1>4. Shows'
  BY ShowsKept DEF Inv, WriteOamAddress, pipeline
<1>5. Lowered'
  BY LoweredKept DEF Inv, WriteOamAddress
<1> QED
  BY <1>1, <1>2, <1>3, <1>4, <1>5 DEF Inv

\* A planned line renders, so that no write reaches OAM before it is evaluated.
LEMMA PlannedRenders == Inv /\ plan # None => Rendering(beam) /\ Renders(mask)
BY DEF Inv, Planned, Undisturbed, Rendering

LEMMA TransferKeeps == ASSUME Inv, NEW page \in Pages, Transfer(page) PROVE Inv'
<1>1. page \in [OamBytes -> Bytes] /\ addr \in OamBytes
  BY InputsAssumption DEF Inv, TypeOK
<1>2. \A i \in OamBytes : ((i + 4 * Count) - addr) % (4 * Count) \in OamBytes
  BY <1>1, Sizes DEF OamBytes
<1>3. oam' \in [OamBytes -> Bytes]
  BY <1>1, <1>2 DEF Transfer
<1>4. TypeOK'
  BY <1>3 DEF Inv, TypeOK, Transfer, pipeline
<1>5. Homed'
  <2>1. CASE home
    <3>1. addr = 0
      BY <2>1 DEF Inv, Homed
    <3>2. \A i \in OamBytes : ((i + 4 * Count) - 0) % (4 * Count) = i
      BY Sizes DEF OamBytes
    <3>3. oam' = page
      BY <1>1, <3>1, <3>2 DEF Transfer
    <3> QED
      BY <2>1, <3>1, <3>3 DEF Homed, OamIsPage, Transfer
  <2>2. CASE ~home
    BY <2>2 DEF Homed, OamIsPage, Transfer
  <2> QED
    BY <2>1, <2>2
<1>6. Planned'
  BY PlannedRenders DEF Transfer, Planned
<1>7. Shows'
  BY ShowsKept DEF Inv, Transfer, pipeline
<1>8. Lowered'
  BY LoweredKept DEF Inv, Transfer
<1> QED
  BY <1>4, <1>5, <1>6, <1>7, <1>8 DEF Inv

LEMMA OamKeeps == ASSUME Inv, NEW v \in Written, WriteOam(v) PROVE Inv'
<1>1. oam \in [OamBytes -> Bytes] /\ addr \in OamBytes /\ v \in Bytes
  BY InputsAssumption DEF Inv, TypeOK
<1>2. oam' \in [OamBytes -> Bytes] /\ addr' \in OamBytes
  BY <1>1, Sizes DEF WriteOam, OamBytes
<1>3. TypeOK'
  BY <1>2 DEF Inv, TypeOK, WriteOam, pipeline
<1>4. Homed'
  BY DEF Inv, Homed, OamIsPage, WriteOam
<1>5. Planned'
  <2>1. CASE Rendering(beam)
    <3>1. plan # None => Renders(mask')
      BY PlannedRenders DEF WriteOam
    <3>2. oam' = oam
      BY <2>1 DEF WriteOam
    <3> QED
      BY <3>1, <3>2, PlannedKept DEF Inv, WriteOam, pipeline
  <2>2. CASE ~Rendering(beam)
    BY <2>2, PlannedRenders DEF WriteOam, Planned
  <2> QED
    BY <2>1, <2>2
<1>6. Shows'
  BY ShowsKept DEF Inv, WriteOam, pipeline
<1>7. Lowered'
  BY LoweredKept DEF Inv, WriteOam
<1> QED
  BY <1>3, <1>4, <1>5, <1>6, <1>7 DEF Inv

LEMMA ResetKeeps == ASSUME Inv, Reset PROVE Inv'
<1>1. oam' \in [OamBytes -> Bytes] /\ addr' \in OamBytes
  BY Sizes DEF Reset, OamBytes, Bytes
<1>2. secondary' \in [0 .. 4 * Slots - 1 -> Bytes]
  BY Sizes DEF Reset, Bytes
<1>3. eval' \in Evals
  BY Sizes DEF Reset, Idle, Evals
<1>4. beam' \in [line : 0 .. PreRender, dot : 0 .. SwapDot]
  BY Sizes DEF Reset, PreRender, SwapDot
<1>5. mask' \in [bg : BOOLEAN, sp : BOOLEAN, bgLeft : BOOLEAN, spLeft : BOOLEAN]
  BY DEF Reset
<1>6. ctrl' \in [height : {Small, 2 * Small}, table : 0 .. 1]
  BY Sizes DEF Reset
<1>7. /\ flags' \in [hit : BOOLEAN, overflow : BOOLEAN] /\ home' \in BOOLEAN
      /\ next' = next /\ shown' = shown /\ ready' = ready
  BY DEF Reset
<1>8. TypeOK'
  BY <1>1, <1>2, <1>3, <1>4, <1>5, <1>6, <1>7 DEF Inv, TypeOK
<1>9. Homed' /\ Planned' /\ Shows' /\ Lowered'
  BY DEF Reset, Homed, OamIsPage, Planned, Shows, Lowered
<1> QED
  BY <1>8, <1>9 DEF Inv

-----------------------------------------------------------------------------
(* A dot. *)

Live == beam'.line < Visible /\ Renders(mask)

LEMMA DotFacts ==
  ASSUME Inv, Dot
  PROVE  /\ mask' = mask /\ ctrl' = ctrl /\ beam' = Moved(beam)
         /\ beam' \in [line : 0 .. PreRender, dot : 0 .. SwapDot]
         /\ beam.line \in 0 .. PreRender /\ beam.dot \in 0 .. SwapDot
         /\ beam.dot < SwapDot => beam'.dot = beam.dot + 1 /\ beam'.line = beam.line
         /\ beam.dot = SwapDot =>
              /\ beam'.dot = 0
              /\ beam'.line = IF beam.line = PreRender THEN 0 ELSE beam.line + 1
<1>1. mask' = mask /\ ctrl' = ctrl /\ beam' = Moved(beam)
  BY DEF Dot
<1>2. beam' \in [line : 0 .. PreRender, dot : 0 .. SwapDot]
  BY <1>1, MovedType DEF Inv, TypeOK
<1>3. beam.line \in 0 .. PreRender /\ beam.dot \in 0 .. SwapDot /\ beam = [line |-> beam.line, dot |-> beam.dot]
  BY DEF Inv, TypeOK
<1>4. beam.dot < SwapDot => beam'.dot = beam.dot + 1 /\ beam'.line = beam.line
  BY <1>1, <1>3 DEF Moved
<1>5. beam.dot = SwapDot =>
        /\ beam'.dot = 0
        /\ beam'.line = IF beam.line = PreRender THEN 0 ELSE beam.line + 1
  BY <1>1, <1>3, Sizes DEF Moved, PreRender
<1> QED
  BY <1>1, <1>2, <1>3, <1>4, <1>5

LEMMA DotCases ==
  ASSUME Inv, Dot
  PROVE  \/ ~Live /\ NoSprites
         \/ Live /\ beam'.dot = 0 /\ StartLine
         \/ Live /\ beam'.dot \in 1 .. Slots /\ ClearSlot
         \/ Live /\ beam'.dot \in Slots + 1 .. LastEval /\ EvalDot
         \/ Live /\ beam'.dot \in LastEval + 1 .. SwapDot - 1 /\ FetchDot
         \/ Live /\ beam'.dot = SwapDot /\ SwapBuffers
<1>1. beam'.dot \in 0 .. SwapDot
  BY DotFacts
<1>2. CASE ~Live
  <2>1. NoSprites
    BY <1>2 DEF Dot, Live
  <2> QED
    BY <1>2, <2>1
<1>3. CASE Live /\ beam'.dot = 0
  <2>1. ~ClearAt(beam'.dot) /\ ~EvalAt(beam'.dot) /\ ~FetchAt(beam'.dot) /\ beam'.dot # SwapDot
    BY <1>3, Sizes DEF ClearAt, EvalAt, FetchAt, SwapDot
  <2> QED
    BY <1>3, <2>1 DEF Dot, Live
<1>4. CASE Live /\ beam'.dot \in 1 .. Slots
  <2>1. ClearAt(beam'.dot) /\ beam'.dot # 0
    BY <1>4, Sizes DEF ClearAt
  <2>2. ~EvalAt(beam'.dot) /\ ~FetchAt(beam'.dot) /\ beam'.dot # SwapDot
    BY <1>4, Sizes DEF EvalAt, FetchAt, SwapDot
  <2> QED
    BY <1>4, <2>1, <2>2 DEF Dot, Live
<1>5. CASE Live /\ beam'.dot \in Slots + 1 .. LastEval
  <2>1. EvalAt(beam'.dot) /\ beam'.dot # 0
    BY <1>5, Sizes DEF EvalAt, LastEval
  <2>2. ~ClearAt(beam'.dot) /\ ~FetchAt(beam'.dot) /\ beam'.dot # SwapDot
    BY <1>5, Sizes DEF ClearAt, FetchAt, SwapDot, LastEval
  <2> QED
    BY <1>5, <2>1, <2>2 DEF Dot, Live
<1>6. CASE Live /\ beam'.dot \in LastEval + 1 .. SwapDot - 1
  <2>1. FetchAt(beam'.dot) /\ beam'.dot # 0
    BY <1>6, Sizes DEF FetchAt, LastEval
  <2>2. ~ClearAt(beam'.dot) /\ ~EvalAt(beam'.dot) /\ beam'.dot # SwapDot
    BY <1>6, Sizes DEF ClearAt, EvalAt, SwapDot, LastEval
  <2> QED
    BY <1>6, <2>1, <2>2 DEF Dot, Live
<1>7. CASE Live /\ beam'.dot = SwapDot
  <2>1. ~ClearAt(beam'.dot) /\ ~EvalAt(beam'.dot) /\ ~FetchAt(beam'.dot) /\ beam'.dot # 0
    BY <1>7, Sizes DEF ClearAt, EvalAt, FetchAt, SwapDot
  <2> QED
    BY <1>7, <2>1 DEF Dot, Live
<1> QED
  <2>1. \/ beam'.dot = 0 \/ beam'.dot \in 1 .. Slots \/ beam'.dot \in Slots + 1 .. LastEval
        \/ beam'.dot \in LastEval + 1 .. SwapDot - 1 \/ beam'.dot = SwapDot
    BY <1>1, Sizes DEF SwapDot, LastEval
  <2> QED
    BY <1>2, <1>3, <1>4, <1>5, <1>6, <1>7, <2>1

LEMMA OamMoves ==
  ASSUME Inv, Dot
  PROVE  /\ oam' \in [OamBytes -> Bytes] /\ addr' \in OamBytes /\ home' \in BOOLEAN
         /\ Homed' /\ (beam'.line < Visible => oam' = oam)
<1>1. /\ oam \in [OamBytes -> Bytes] /\ addr \in OamBytes /\ home \in BOOLEAN
      /\ home => addr = 0
      /\ intent # None => oam = intent
  BY DEF Inv, TypeOK, Homed, OamIsPage
<1>2. MoveOam
  BY DEF Dot
<1>3. CorruptedOam \in [OamBytes -> Bytes]
  <2>1. \A b \in Bytes : Masked(b) \in Bytes
    BY Sizes DEF Masked, Bytes
  <2>2. \A i \in OamBytes : i < 8 => 8 * (addr \div 8) + i \in OamBytes
    <3> SUFFICES ASSUME NEW i \in OamBytes, i < 8 PROVE 8 * (addr \div 8) + i \in OamBytes
      OBVIOUS
    <3>1. PICK h \in Nat : Count = 2 * h
      BY SpritesAssumption
    <3>2. addr \in Nat /\ addr < 8 * h /\ i \in Nat
      BY <1>1, <3>1, Sizes DEF OamBytes
    <3>3. addr \div 8 \in Nat /\ 8 * (addr \div 8) <= addr
      BY <3>2
    <3>4. addr \div 8 < h
      BY <3>2, <3>3
    <3>5. 8 * (addr \div 8) + i < 8 * h
      BY <3>2, <3>3, <3>4
    <3> QED
      BY <3>1, <3>2, <3>3, <3>5 DEF OamBytes
  <2>3. ASSUME NEW i \in OamBytes
        PROVE  CorruptedOam[i] \in Bytes
    <3>1. CASE i >= 8
      BY <1>1, <3>1 DEF CorruptedOam
    <3>2. CASE ~(i >= 8)
      <4>1. 8 * (addr \div 8) + i \in OamBytes
        BY <2>2, <3>2, Sizes DEF OamBytes
      <4>2. oam[8 * (addr \div 8) + i] \in Bytes
        BY <1>1, <4>1
      <4> QED
        BY <2>1, <3>2, <4>2 DEF CorruptedOam
    <3> QED
      BY <3>1, <3>2
  <2>4. CorruptedOam = [i \in OamBytes |-> CorruptedOam[i]]
    BY DEF CorruptedOam
  <2> QED
    BY <2>3, <2>4
<1>4. oam' \in [OamBytes -> Bytes] /\ addr' \in OamBytes /\ home' \in BOOLEAN
  <2>1. 0 \in OamBytes
    BY Sizes DEF OamBytes
  <2>2. home' = (home \/ (Rendering(beam') /\ FetchAt(beam'.dot)))
    BY <1>2 DEF MoveOam
  <2> QED
    BY <1>1, <1>2, <1>3, <2>1, <2>2 DEF MoveOam
<1>5. Corrupts(beam') => /\ beam'.line = PreRender /\ Rendering(beam') /\ FetchAt(beam'.dot)
                         /\ addr >= 8
  BY Sizes DEF Corrupts, FetchAt, SwapDot
<1>6. Homed'
  <2>1. CASE Rendering(beam') /\ FetchAt(beam'.dot)
    <3>1. addr' = 0
      BY <1>2, <2>1 DEF MoveOam, Clears
    <3>2. CASE home
      <4>1. ~Corrupts(beam')
        BY <1>1, <1>5, <3>2
      <4> QED
        BY <1>1, <1>2, <3>1, <3>2, <4>1 DEF MoveOam, Homed, OamIsPage
    <3>3. CASE ~home /\ beam'.line = PreRender
      BY <1>2, <2>1, <3>1, <3>3 DEF MoveOam, Homed, OamIsPage
    <3>4. CASE ~home /\ beam'.line # PreRender
      <4>1. ~Corrupts(beam')
        BY <1>5, <3>4
      <4> QED
        BY <1>1, <1>2, <3>1, <3>4, <4>1 DEF MoveOam, Homed, OamIsPage
    <3> QED
      BY <1>1, <3>2, <3>3, <3>4
  <2>2. CASE ~(Rendering(beam') /\ FetchAt(beam'.dot))
    BY <1>1, <1>2, <1>5, <2>2 DEF MoveOam, Clears, Homed, OamIsPage
  <2> QED
    BY <2>1, <2>2
<1>7. beam'.line < Visible => oam' = oam
  <2>1. beam'.line \in 0 .. PreRender
    BY DotFacts
  <2>2. beam'.line < Visible => ~Corrupts(beam')
    BY <1>5, <2>1, Sizes DEF PreRender
  <2> QED
    BY <1>2, <2>2 DEF MoveOam
<1> QED
  BY <1>4, <1>6, <1>7

\* What an assignment to fields of a buffer makes of it.
LEMMA ZeroSet ==
  ASSUME NEW b, Buffers(b), NEW zero, NEW count
  PROVE  /\ [b EXCEPT !.zero = zero] = [buf |-> b.buf, count |-> b.count, zero |-> zero]
         /\ [b EXCEPT !.zero = zero, !.count = count] = [buf |-> b.buf, count |-> count, zero |-> zero]
<1>1. b = [buf |-> b.buf, count |-> b.count, zero |-> b.zero]
  BY DEF Buffers
<1>2. [b EXCEPT !.zero = zero] = [buf |-> b.buf, count |-> b.count, zero |-> zero]
  BY <1>1
<1>3. [[buf |-> b.buf, count |-> b.count, zero |-> zero] EXCEPT !.count = count]
        = [buf |-> b.buf, count |-> count, zero |-> zero]
  OBVIOUS
<1>4. [b EXCEPT !.zero = zero, !.count = count] = [[b EXCEPT !.zero = zero] EXCEPT !.count = count]
  OBVIOUS
<1> QED
  BY <1>2, <1>3, <1>4

LEMMA BuffersOf ==
  ASSUME NEW buf, buf = [i \in 0 .. Slots - 1 |-> buf[i]], NEW count \in 0 .. Slots, NEW zero \in 0 .. Slots
  PROVE  Buffers([buf |-> buf, count |-> count, zero |-> zero])
BY DEF Buffers

LEMMA BufferFields ==
  ASSUME NEW b, Buffers(b)
  PROVE  b.buf = [i \in 0 .. Slots - 1 |-> b.buf[i]] /\ b.count \in 0 .. Slots /\ b.zero \in 0 .. Slots
<1>1. b = [buf |-> [i \in 0 .. Slots - 1 |-> b.buf[i]], count |-> b.count, zero |-> b.zero]
  BY DEF Buffers
<1> QED
  BY <1>1 DEF Buffers

LEMMA SlotSet ==
  ASSUME NEW b, Buffers(b), NEW buf
  PROVE  [b EXCEPT !.buf = buf] = [buf |-> buf, count |-> b.count, zero |-> b.zero]
<1>1. b = [buf |-> b.buf, count |-> b.count, zero |-> b.zero]
  BY DEF Buffers
<1> QED
  BY <1>1

\* What each phase of a line leaves in the pipeline.
PipelineType ==
  /\ secondary \in [0 .. 4 * Slots - 1 -> Bytes] /\ eval \in Evals
  /\ Buffers(next) /\ Buffers(shown) /\ ready \in BOOLEAN

LEMMA StartFacts ==
  ASSUME PipelineType, StartLine
  PROVE  /\ PipelineType'
         /\ eval' = Idle /\ next'.zero = NoSlot /\ next'.buf = next.buf /\ shown' = shown
<1>1. next' = [buf |-> next.buf, count |-> next.count, zero |-> NoSlot]
  BY ZeroSet DEF PipelineType, StartLine
<1>2. Buffers(next')
  <2>1. NoSlot \in 0 .. Slots
    BY Sizes DEF NoSlot
  <2>3. Buffers(next)
    BY DEF PipelineType
  <2>4. next.count \in 0 .. Slots
    BY <2>3, BufferFields
  <2>2. next.buf = [i \in 0 .. Slots - 1 |-> next.buf[i]]
    BY BufferFields DEF PipelineType
  <2> QED
    BY <1>1, <2>1, <2>2, <2>4, BuffersOf
<1>3. Idle \in Evals
  BY Sizes DEF Idle, Evals
<1> QED
  BY <1>1, <1>2, <1>3 DEF PipelineType, StartLine

LEMMA ClearFacts ==
  ASSUME PipelineType, ClearSlot
  PROVE  PipelineType' /\ eval' = eval /\ next' = next /\ shown' = shown
<1>1. secondary' \in [0 .. 4 * Slots - 1 -> Bytes]
  BY Sizes DEF PipelineType, ClearSlot, Bytes
<1> QED
  BY <1>1 DEF PipelineType, ClearSlot

Odd == (beam'.dot - Slots) % 2 = 1

LEMMA EvalFacts ==
  ASSUME TypeOK, EvalDot, beam'.dot \in Nat
  PROVE  /\ PipelineType'
         /\ eval' = IF eval.n >= Count THEN eval ELSE Evaluated(eval, Odd, beam'.line)
         /\ next'.buf = next.buf
         /\ next'.zero = IF eval.n < Count /\ eval.found < Slots /\ eval.cycle = 7 /\ ~Odd /\ eval.n = 0
                         THEN eval.found ELSE next.zero
         /\ next'.count = IF beam'.dot = LastEval THEN eval'.found ELSE next.count
         /\ shown' = shown
<1>1. /\ PipelineType /\ eval.found \in 0 .. Slots /\ eval.n \in 0 .. Count /\ eval.cycle \in 0 .. 7
      /\ oam \in [OamBytes -> Bytes]
  BY DEF TypeOK, PipelineType, Evals
<1>2. eval' = IF eval.n >= Count THEN eval ELSE Evaluated(eval, Odd, beam'.line)
  BY DEF EvalDot, Odd
<1>3. eval' \in Evals
  <2>1. Odd \in BOOLEAN
    BY DEF Odd
  <2>2. eval.n < Count => Evaluated(eval, Odd, beam'.line) \in Evals
    BY <1>1, <2>1, EvaluatedType DEF PipelineType
  <2> QED
    BY <1>1, <1>2, <2>2, Sizes DEF PipelineType
<1> DEFINE zero == IF eval.n < Count /\ eval.found < Slots /\ eval.cycle = 7 /\ ~Odd /\ eval.n = 0
                     THEN eval.found ELSE next.zero
           count == IF beam'.dot = LastEval THEN eval'.found ELSE next.count
<1>4. next' = [next EXCEPT !.zero = zero, !.count = count]
  BY DEF EvalDot, Odd, LastEval
<1>5. next' = [buf |-> next.buf, count |-> count, zero |-> zero]
  <2> HIDE DEF zero, count
  <2> QED
    BY <1>1, <1>4, ZeroSet DEF PipelineType
<1>6. Buffers(next')
  <2>1. zero \in 0 .. Slots /\ count \in 0 .. Slots
    BY <1>1, <1>3, BufferFields DEF PipelineType, Evals
  <2> HIDE DEF zero, count
  <2> QED
    BY <1>1, <1>5, <2>1, BufferFields, BuffersOf DEF PipelineType
<1>7. secondary' \in [0 .. 4 * Slots - 1 -> Bytes]
  <2>1. CASE eval.n < Count /\ Copies(eval, Odd)
    <3>1. secondary' = Copied(eval)
      BY <2>1 DEF EvalDot, Odd
    <3>2. eval.cycle \div 2 \in 0 .. 3
      BY <1>1
    <3>3. eval.n < Count /\ eval.found < Slots
      BY <2>1 DEF Copies
    <3>4. 4 * eval.n + (eval.cycle \div 2) \in OamBytes
      BY <1>1, <3>2, <3>3, Sizes DEF OamBytes
    <3>5. oam[4 * eval.n + (eval.cycle \div 2)] \in Bytes
      BY <1>1, <3>4
    <3> QED
      BY <1>1, <3>1, <3>5 DEF Copied, PipelineType
  <2>2. CASE ~(eval.n < Count /\ Copies(eval, Odd))
    <3>1. secondary' = secondary
      BY <2>2 DEF EvalDot, Odd
    <3> QED
      BY <1>1, <3>1 DEF PipelineType
  <2> QED
    BY <2>1, <2>2
<1>8. shown' = shown /\ ready' = ready
  BY DEF EvalDot
<1>9. PipelineType'
  BY <1>1, <1>3, <1>6, <1>7, <1>8 DEF PipelineType
<1> QED
  <2> HIDE DEF zero, count
  <2>1. next'.buf = next.buf /\ next'.zero = zero /\ next'.count = count
    BY <1>5
  <2> QED
    BY <1>2, <1>8, <1>9, <2>1 DEF zero, count

LEMMA FetchFacts ==
  ASSUME TypeOK, FetchDot, beam'.dot \in LastEval + 1 .. SwapDot - 1
  PROVE  /\ PipelineType' /\ eval' = eval /\ secondary' = secondary /\ shown' = shown
         /\ next'.zero = next.zero /\ next'.count = next.count
         /\ \A i \in 0 .. eval.found - 1 :
              next'.buf[i] = IF i = beam'.dot - (LastEval + 1) THEN FetchedSlot(i, beam'.line)
                             ELSE next.buf[i]
<1> DEFINE slot == beam'.dot - (LastEval + 1)
<1>1. PipelineType /\ eval.found \in 0 .. Slots
  BY DEF TypeOK, PipelineType, Evals
<1>2. slot \in 0 .. Slots - 1
  BY Sizes DEF LastEval, SwapDot
<1>3. CASE slot < eval.found
  <2>1. next' = [next EXCEPT !.buf = [next.buf EXCEPT ![slot] = FetchedSlot(slot, beam'.line)]]
    BY <1>3 DEF FetchDot, LastEval
  <2>2. /\ Buffers(next') /\ next'.count = next.count /\ next'.zero = next.zero
        /\ \A j \in 0 .. Slots - 1 :
             next'.buf[j] = IF j = slot THEN FetchedSlot(slot, beam'.line) ELSE next.buf[j]
    <3> HIDE DEF slot
    <3>1. Buffers(next) /\ next.count \in 0 .. Slots /\ next.zero \in 0 .. Slots
      BY <1>1 DEF PipelineType, Buffers
    <3>5. PICK entry : entry = FetchedSlot(slot, beam'.line)
      OBVIOUS
    <3>2. PICK buf : buf = [next.buf EXCEPT ![slot] = entry]
      OBVIOUS
    <3>3. /\ buf = [j \in 0 .. Slots - 1 |-> buf[j]]
          /\ \A j \in 0 .. Slots - 1 : buf[j] = IF j = slot THEN entry ELSE next.buf[j]
      <4>1. next.buf = [j \in 0 .. Slots - 1 |-> next.buf[j]]
        BY <3>1, BufferFields
      <4> QED
        BY <1>2, <3>2, <4>1
    <3>4. next' = [buf |-> buf, count |-> next.count, zero |-> next.zero]
      BY <2>1, <3>1, <3>2, <3>5, SlotSet
    <3> QED
      BY <3>1, <3>3, <3>4, <3>5, BuffersOf
  <2>3. \A i \in 0 .. eval.found - 1 : i \in 0 .. Slots - 1
    BY <1>1, Sizes
  <2>4. \A i \in 0 .. eval.found - 1 :
          next'.buf[i] = IF i = slot THEN FetchedSlot(i, beam'.line) ELSE next.buf[i]
    <3> HIDE DEF slot
    <3> QED
      BY <2>2, <2>3
  <2> QED
    BY <1>1, <2>2, <2>4 DEF FetchDot, PipelineType
<1>4. CASE ~(slot < eval.found)
  <2>1. next' = next
    BY <1>4 DEF FetchDot, LastEval
  <2>2. \A i \in 0 .. eval.found - 1 : i # slot
    BY <1>1, <1>2, <1>4
  <2> QED
    BY <1>1, <2>1, <2>2 DEF FetchDot, PipelineType
<1> QED
  BY <1>3, <1>4

LEMMA SwapFacts ==
  ASSUME PipelineType, SwapBuffers
  PROVE  /\ PipelineType'
         /\ ready => shown' = next
         /\ ~ready => due' = None
BY DEF PipelineType, SwapBuffers, Swapped

LEMMA OffFacts ==
  ASSUME PipelineType, NoSprites
  PROVE  PipelineType' /\ plan' = None /\ shown' = shown
BY DEF PipelineType, NoSprites

LEMMA FlagFacts ==
  ASSUME Inv, Dot
  PROVE  /\ flags' \in [hit : BOOLEAN, overflow : BOOLEAN] /\ Lowered'
         /\ beam'.line < Visible =>
              flags'.overflow = (flags.overflow \/ (/\ Live /\ EvalAt(beam'.dot)
                                                   /\ eval.n < Count /\ Overflows(eval, Odd)))
<1>1. flags' = FlagsAt(beam')
  BY DEF Dot
<1>2. flags.hit \in BOOLEAN /\ flags.overflow \in BOOLEAN
  BY DEF Inv, TypeOK
<1>3. flags' \in [hit : BOOLEAN, overflow : BOOLEAN]
  BY <1>1, <1>2 DEF FlagsAt
<1>4. Lowered'
  <2>1. CASE beam'.line = PreRender /\ beam'.dot = 0
    BY <1>1, <2>1 DEF FlagsAt, Lowered
  <2>2. CASE beam'.line = PreRender /\ beam'.dot # 0
    <3>1. beam.line = PreRender
      BY <2>2, DotFacts, Sizes DEF SwapDot
    <3>2. ~(beam'.line < Visible)
      BY <2>2, Sizes DEF PreRender
    <3> QED
      BY <1>1, <2>2, <3>1, <3>2 DEF FlagsAt, Lowered, Inv
  <2>3. CASE beam'.line = 0 /\ beam'.dot = 0
    <3>1. beam.line = PreRender
      BY <2>3, DotFacts, Sizes DEF SwapDot, PreRender
    <3>2. ~DrawAt(beam'.dot) /\ beam'.line # PreRender
      BY <2>3, Sizes DEF DrawAt, ClearAt, EvalAt, PreRender
    <3> QED
      BY <1>1, <2>3, <3>1, <3>2 DEF FlagsAt, Lowered, Inv
  <2> QED
    BY <2>1, <2>2, <2>3 DEF Lowered
<1>5. ASSUME beam'.line < Visible
      PROVE  flags'.overflow = (flags.overflow \/ (/\ Live /\ EvalAt(beam'.dot)
                                                  /\ eval.n < Count /\ Overflows(eval, Odd)))
  <2>1. beam'.line # PreRender
    BY <1>5, Sizes DEF PreRender
  <2> QED
    BY <1>1, <2>1 DEF FlagsAt, Live, Odd
<1> QED
  BY <1>3, <1>4, <1>5

LEMMA TypeDot == ASSUME Inv, Dot PROVE TypeOK'
<1>1. TypeOK /\ PipelineType
  BY DEF Inv, TypeOK, PipelineType
<1>2. beam' \in [line : 0 .. PreRender, dot : 0 .. SwapDot] /\ mask' = mask /\ ctrl' = ctrl
  BY DotFacts
<1>3. beam'.dot \in Nat
  BY <1>2, Sizes DEF SwapDot
<1>4. PipelineType'
  BY <1>1, <1>3, DotCases, StartFacts, ClearFacts, EvalFacts, FetchFacts, SwapFacts, OffFacts
<1> QED
  BY <1>1, <1>2, <1>4, OamMoves, FlagFacts DEF TypeOK, PipelineType

-----------------------------------------------------------------------------
(* The evaluation of a planned line. *)

\* What a line has to show, before and after a dot that leaves OAM and the control register.
LEMMA SameAt ==
  ASSUME oam' = oam, ctrl' = ctrl
  PROVE  /\ Here' = InRange(beam'.line) /\ Wanted(beam.line)' = Wanted(beam'.line)
         /\ ScanFinds(beam.line)' = ScanFinds(beam'.line)
<1>1. \A y, line : OnLine(y, line)' = OnLine(y, line)
  BY DEF OnLine
<1>2. InRange(beam.line)' = InRange(beam'.line)
  BY <1>1 DEF InRange
<1>3. \A n : OfSprite(n, beam.line)' = OfSprite(n, beam'.line)
  BY DEF OfSprite, Entry, Pattern, Row
<1>4. Wanted(beam.line)' = Wanted(beam'.line)
  BY <1>2, <1>3 DEF Wanted
<1>5. ScanFinds(beam.line)' = ScanFinds(beam'.line)
  BY <1>1, <1>2 DEF ScanFinds
<1> QED
  BY <1>2, <1>4, <1>5 DEF Here

LEMMA InRangePlaces == ASSUME NEW line PROVE InRange(line) \in SUBSET Places
BY DEF InRange, Places

\* Before the evaluation starts there is nothing but the plan.
LEMMA PlannedIdle ==
  ASSUME oam' = oam, ctrl' = ctrl, mask' = mask, Live, beam'.dot \in 0 .. Slots,
         eval' = Idle, next'.zero = NoSlot,
         plan'.list = Wanted(beam'.line), plan'.overflow \in BOOLEAN,
         plan'.overflow <=> flags'.overflow \/ ScanFinds(beam'.line)
  PROVE  Planned'
<1>1. /\ eval'.found = 0 /\ eval'.n = 0 /\ eval'.m = 0 /\ eval'.cycle = 0
  BY DEF Idle
<1>2. /\ Here' = InRange(beam'.line) /\ Wanted(beam.line)' = Wanted(beam'.line)
      /\ ScanFinds(beam.line)' = ScanFinds(beam'.line)
  BY SameAt
<1>3. Undisturbed'
  BY <1>2, Sizes DEF Undisturbed, Live, SwapDot, Renders
<1>4. InTime'
  BY <1>1, Sizes DEF InTime, Spent
<1>5. Ranked'
  <2>1. Rank(0, Here') = 0
    BY <1>2, InRangePlaces, RankZero
  <2> QED
    BY <1>1, <1>2, <2>1 DEF Ranked
<1>6. Scanning' /\ Kept'
  BY <1>1, Sizes DEF Scanning, Kept
<1>7. Taking'
  BY <1>1 DEF Taking
<1>8. Buffered'
  <2>1. beam'.dot < LastEval
    BY Sizes DEF LastEval
  <2> QED
    BY <1>1, <2>1, Sizes DEF Buffered, LastEval
<1> QED
  BY <1>3, <1>4, <1>5, <1>6, <1>7, <1>8 DEF Planned

LEMMA PlannedStart == ASSUME Inv, Dot, Live, beam'.dot = 0, StartLine PROVE Planned'
<1>1. oam' = oam /\ ctrl' = ctrl /\ mask' = mask
  BY OamMoves, DotFacts DEF Live
<1>2. eval' = Idle /\ next'.zero = NoSlot
  BY StartFacts DEF Inv, TypeOK, PipelineType
<1>3. /\ plan'.list = Wanted(beam'.line)
      /\ plan'.overflow = (flags'.overflow \/ ScanFinds(beam'.line))
  BY DEF StartLine
<1>4. beam'.dot \in 0 .. Slots
  BY Sizes
<1> QED
  BY <1>1, <1>2, <1>3, <1>4, PlannedIdle

\* The facts that the dots of a planned line share.
LEMMA OnPlan ==
  ASSUME Inv, Dot, Live, plan # None, beam'.dot > 0
  PROVE  /\ oam' = oam /\ ctrl' = ctrl /\ mask' = mask
         /\ beam'.line = beam.line /\ beam'.dot = beam.dot + 1 /\ beam.dot \in Nat
         /\ Undisturbed /\ InTime /\ Ranked /\ Scanning /\ Kept /\ Taking /\ Buffered
         /\ Here' = Here /\ Wanted(beam.line)' = Wanted(beam.line)
         /\ ScanFinds(beam.line)' = ScanFinds(beam.line)
<1>1. oam' = oam /\ ctrl' = ctrl /\ mask' = mask
  BY OamMoves, DotFacts DEF Live
<1>2. beam.dot \in 0 .. SwapDot
  BY DotFacts
<1>3. beam'.line = beam.line /\ beam'.dot = beam.dot + 1 /\ beam.dot \in Nat
  BY <1>2, DotFacts, Sizes DEF SwapDot
<1>4. Undisturbed /\ InTime /\ Ranked /\ Scanning /\ Kept /\ Taking /\ Buffered
  BY DEF Inv, Planned
<1> QED
  BY <1>1, <1>3, <1>4, SameLine

LEMMA PlannedClear ==
  ASSUME Inv, Dot, Live, beam'.dot \in 1 .. Slots, ClearSlot
  PROVE  Planned'
<1>1. CASE plan' = None
  BY <1>1 DEF Planned
<1>2. CASE plan' # None
  <2>1. plan' = plan /\ plan # None /\ beam'.dot > 0
    BY <1>2, Sizes DEF ClearSlot
  <2>2. /\ oam' = oam /\ ctrl' = ctrl /\ mask' = mask
        /\ beam'.line = beam.line /\ beam'.dot = beam.dot + 1 /\ beam.dot \in Nat
        /\ Undisturbed /\ Ranked /\ Buffered
    BY <2>1, OnPlan
  <2>3. eval = Idle
    BY <2>2, Sizes DEF Undisturbed
  <2>4. eval.found = 0 /\ eval.n = 0
    BY <2>3 DEF Idle
  <2>5. eval' = Idle /\ next'.zero = NoSlot
    BY <2>2, <2>3, <2>4 DEF ClearSlot, Buffered
  <2>6. flags'.overflow = flags.overflow
    <3>1. ~EvalAt(beam'.dot)
      BY Sizes DEF EvalAt
    <3>2. flags.overflow \in BOOLEAN
      BY DEF Inv, TypeOK
    <3> QED
      BY <3>1, <3>2, FlagFacts DEF Live
  <2>7. /\ plan'.list = Wanted(beam'.line) /\ plan'.overflow \in BOOLEAN
        /\ plan'.overflow <=> flags'.overflow \/ ScanFinds(beam'.line)
    BY <2>1, <2>2, <2>4, <2>6, Sizes DEF Undisturbed, Ranked
  <2>8. beam'.dot \in 0 .. Slots
    BY Sizes
  <2> QED
    BY <2>2, <2>5, <2>7, <2>8, PlannedIdle
<1> QED
  BY <1>1, <1>2

\* The steps of the evaluation, by its state and the parity of the dot.
LEMMA EvaluatedCases ==
  ASSUME NEW e \in Evals, NEW odd \in BOOLEAN, NEW line
  PROVE  /\ e.found = Slots /\ odd => Evaluated(e, odd, line) = ScanRead(e, line)
         /\ e.found = Slots /\ ~odd => Evaluated(e, odd, line) = ScanStep(e)
         /\ e.found < Slots /\ e.cycle = 0 /\ odd => Evaluated(e, odd, line) = ReadY(e, line)
         /\ e.found < Slots /\ e.cycle = 1 /\ ~odd =>
              Evaluated(e, odd, line) = IF e.inRange THEN [e EXCEPT !.cycle = 2] ELSE Skip(e)
         /\ e.found < Slots /\ e.cycle \in {2, 4, 6} /\ odd =>
              Evaluated(e, odd, line) = [e EXCEPT !.cycle = @ + 1]
         /\ e.found < Slots /\ e.cycle \in {3, 5} /\ ~odd =>
              Evaluated(e, odd, line) = [e EXCEPT !.cycle = @ + 1]
         /\ e.found < Slots /\ e.cycle = 7 /\ ~odd => Evaluated(e, odd, line) = Taken(e)
<1>0. e.found \in Nat /\ e.found <= Slots /\ e.cycle \in 0 .. 7
  BY EvalFields
<1>1. e.found = Slots /\ odd => Evaluated(e, odd, line) = ScanRead(e, line)
  BY <1>0, Sizes DEF Evaluated
<1>2. e.found = Slots /\ ~odd => Evaluated(e, odd, line) = ScanStep(e)
  BY <1>0, Sizes DEF Evaluated
<1>3. e.found < Slots /\ e.cycle = 0 /\ odd => Evaluated(e, odd, line) = ReadY(e, line)
  BY <1>0, Sizes DEF Evaluated
<1>4. e.found < Slots /\ e.cycle = 1 /\ ~odd =>
        Evaluated(e, odd, line) = IF e.inRange THEN [e EXCEPT !.cycle = 2] ELSE Skip(e)
  BY <1>0, Sizes DEF Evaluated
<1>5. e.found < Slots /\ e.cycle \in {2, 4, 6} /\ odd =>
        Evaluated(e, odd, line) = [e EXCEPT !.cycle = @ + 1]
  BY <1>0, Sizes DEF Evaluated
<1>6. e.found < Slots /\ e.cycle \in {3, 5} /\ ~odd =>
        Evaluated(e, odd, line) = [e EXCEPT !.cycle = @ + 1]
  BY <1>0, Sizes DEF Evaluated
<1>7. e.found < Slots /\ e.cycle = 7 /\ ~odd => Evaluated(e, odd, line) = Taken(e)
  BY <1>0, Sizes DEF Evaluated
<1> QED
  BY <1>1, <1>2, <1>3, <1>4, <1>5, <1>6, <1>7

\* The evaluation of a planned line is at an odd dot exactly where it expects to be.
LEMMA Parity ==
  ASSUME Inv, Dot, Live, plan # None, beam'.dot \in Slots + 1 .. LastEval, eval.n < Count
  PROVE  /\ Spent \in Nat /\ Spent' = Spent + 1 /\ Spent' <= EvalDots
         /\ eval.found < Slots =>
              /\ Spent = 6 * eval.found + 2 * eval.n + eval.cycle
              /\ Odd <=> eval.cycle \in {0, 2, 4, 6}
         /\ eval.found = Slots /\ Odd => Spent = 6 * Slots + 2 * eval.n
         /\ eval.found = Slots /\ ~Odd =>
              /\ Spent = 6 * Slots + 2 * eval.n + 1
              /\ eval.inRange <=> OnLine(oam[4 * eval.n + eval.m], beam.line)
<1>1. beam'.dot = beam.dot + 1 /\ beam.dot \in Nat /\ InTime
  BY OnPlan, Sizes
<1>2. Spent = beam.dot - Slots /\ Spent \in Nat /\ Spent' = Spent + 1 /\ Spent' <= EvalDots
  BY <1>1, Sizes DEF Spent, LastEval
<1>3. Odd <=> (Spent + 1) % 2 = 1
  <2>1. beam'.dot - Slots = Spent + 1
    BY <1>1, <1>2, Sizes
  <2> QED
    BY <2>1 DEF Odd
<1>4. /\ eval.found \in Nat /\ eval.found <= Slots /\ eval.n \in Nat /\ eval.cycle \in 0 .. 7
  BY EvalFields DEF Inv, TypeOK
<1>5. CASE eval.found < Slots
  <2>1. Spent = 6 * eval.found + 2 * eval.n + eval.cycle
    BY <1>1, <1>5 DEF InTime
  <2>2. Odd <=> eval.cycle \in {0, 2, 4, 6}
    BY <1>3, <1>4, <2>1
  <2>3. eval.found # Slots
    BY <1>4, <1>5, Sizes
  <2> QED
    BY <1>2, <1>5, <2>1, <2>2, <2>3
<1>6. CASE eval.found = Slots
  <2>1. \/ Spent = 6 * Slots + 2 * eval.n
        \/ /\ Spent = 6 * Slots + 2 * eval.n + 1
           /\ eval.inRange <=> OnLine(oam[4 * eval.n + eval.m], beam.line)
    BY <1>1, <1>6, Sizes DEF InTime
  <2>2. Spent = 6 * Slots + 2 * eval.n => Odd
    BY <1>3, <1>4, Sizes
  <2>3. Spent = 6 * Slots + 2 * eval.n + 1 => ~Odd
    BY <1>3, <1>4, Sizes
  <2> QED
    BY <1>2, <1>6, <2>1, <2>2, <2>3, Sizes
<1> QED
  BY <1>4, <1>5, <1>6, Sizes

\* What a dot leaves as it was.
Still == secondary' = secondary /\ next'.zero = next.zero /\ flags'.overflow = flags.overflow

\* The byte of the sprite that a dot copies.
Puts(b) ==
  /\ secondary' = [secondary EXCEPT ![4 * eval.found + b] = oam[4 * eval.n + b]]
  /\ flags'.overflow = flags.overflow

LEMMA EvalCases ==
  ASSUME Inv, Dot, Live, plan # None, beam'.dot \in Slots + 1 .. LastEval, EvalDot
  PROVE  \/ eval.n = Count /\ eval' = eval /\ Still
         \/ /\ eval.n < Count /\ eval.found = Slots /\ Odd /\ Still
            /\ eval' = EvalOf(eval.found, eval.n, eval.m, eval.cycle,
                             OnLine(oam[4 * eval.n + eval.m], beam.line))
         \/ /\ eval.n < Count /\ eval.found = Slots /\ ~Odd
            /\ eval' = EvalOf(eval.found, eval.n + 1, (eval.m + 1) % 4, eval.cycle, eval.inRange)
            /\ secondary' = secondary /\ next'.zero = next.zero
            /\ flags'.overflow = (flags.overflow \/ eval.inRange)
         \/ /\ eval.n < Count /\ eval.found < Slots /\ eval.cycle = 0 /\ Still
            /\ eval' = EvalOf(eval.found, eval.n, eval.m, 1, OnLine(oam[4 * eval.n], beam.line))
         \/ /\ eval.n < Count /\ eval.found < Slots /\ eval.cycle = 1 /\ ~eval.inRange /\ Still
            /\ eval' = EvalOf(eval.found, eval.n + 1, eval.m, 0, eval.inRange)
         \/ /\ eval.n < Count /\ eval.found < Slots /\ eval.cycle \in {2, 4, 6} /\ Still
            /\ eval' = EvalOf(eval.found, eval.n, eval.m, eval.cycle + 1, eval.inRange)
         \/ /\ eval.n < Count /\ eval.found < Slots /\ next'.zero = next.zero
            /\ \E b \in 0 .. 2 : eval.cycle = 2 * b + 1 /\ Puts(b)
            /\ eval.cycle = 1 => eval.inRange
            /\ eval' = EvalOf(eval.found, eval.n, eval.m, eval.cycle + 1, eval.inRange)
         \/ /\ eval.n < Count /\ eval.found < Slots /\ eval.cycle = 7 /\ Puts(3)
            /\ next'.zero = IF eval.n = 0 THEN eval.found ELSE next.zero
            /\ eval' = EvalOf(eval.found + 1, eval.n + 1, eval.m, 0, eval.inRange)
<1>0. /\ beam'.line = beam.line /\ beam'.dot \in Nat /\ beam'.line < Visible
      /\ eval \in Evals /\ Odd \in BOOLEAN /\ TypeOK
  BY OnPlan, Sizes DEF Inv, TypeOK, Odd, Live
<1>1. /\ eval.found \in Nat /\ eval.found <= Slots /\ eval.n \in Nat /\ eval.n <= Count
      /\ eval.m \in 0 .. 3 /\ eval.cycle \in 0 .. 7 /\ eval.inRange \in BOOLEAN
  BY <1>0, EvalFields
<1>2. /\ eval' = IF eval.n >= Count THEN eval ELSE Evaluated(eval, Odd, beam.line)
      /\ next'.zero = IF eval.n < Count /\ eval.found < Slots /\ eval.cycle = 7 /\ ~Odd /\ eval.n = 0
                      THEN eval.found ELSE next.zero
  BY <1>0, EvalFacts
<1>3. /\ secondary' = IF eval.n < Count /\ Copies(eval, Odd) THEN Copied(eval) ELSE secondary
  BY DEF EvalDot, Odd
<1>4. flags.overflow \in BOOLEAN /\ flags'.overflow = (flags.overflow \/ (eval.n < Count /\ Overflows(eval, Odd)))
  <2>1. EvalAt(beam'.dot)
    BY DEF EvalAt, LastEval
  <2>2. flags.overflow \in BOOLEAN
    BY <1>0 DEF TypeOK
  <2> QED
    BY <1>0, <2>1, <2>2, FlagFacts
<1>5. CASE eval.n = Count
  <2>1. ~(eval.n < Count) /\ eval.n >= Count
    BY <1>1, <1>5, Sizes
  <2>2. eval' = eval /\ next'.zero = next.zero /\ secondary' = secondary
    BY <1>2, <1>3, <2>1
  <2>3. flags'.overflow = flags.overflow
    BY <1>4, <2>1
  <2> QED
    BY <1>5, <2>2, <2>3 DEF Still
<1> DEFINE e == Evaluated(eval, Odd, beam.line)
<1>6. ASSUME eval.n < Count PROVE eval' = e
  BY <1>1, <1>2, <1>6, Sizes
<1>7. CASE eval.n < Count /\ eval.found = Slots
  <2>1. next'.zero = next.zero /\ secondary' = secondary
    BY <1>1, <1>2, <1>3, <1>7, Sizes DEF Copies
  <2>2. flags'.overflow = (flags.overflow \/ (~Odd /\ eval.inRange))
    BY <1>1, <1>4, <1>7, Sizes DEF Overflows
  <2>3. CASE Odd
    <3>1. e = ScanRead(eval, beam.line)
      BY <1>0, <1>7, <2>3, EvaluatedCases
    <3>2. flags'.overflow = flags.overflow
      <4>1. (flags.overflow \/ (~Odd /\ eval.inRange)) <=> flags.overflow
        BY <2>3
      <4> QED
        BY <1>4, <2>2, <4>1
    <3> QED
      BY <1>0, <1>6, <1>7, <2>1, <2>3, <3>1, <3>2, Steps DEF Still
  <2>4. CASE ~Odd
    <3>1. e = ScanStep(eval)
      BY <1>0, <1>7, <2>4, EvaluatedCases
    <3>2. flags'.overflow = (flags.overflow \/ eval.inRange)
      BY <2>2, <2>4
    <3> QED
      BY <1>0, <1>6, <1>7, <2>1, <2>4, <3>1, <3>2, Steps
  <2> QED
    BY <2>3, <2>4
<1>8. CASE eval.n < Count /\ eval.found < Slots
  <2>1. Odd <=> eval.cycle \in {0, 2, 4, 6}
    BY <1>8, Parity
  <2>2. ~Overflows(eval, Odd)
    BY <1>1, <1>8, Sizes DEF Overflows
  <2>3. flags'.overflow = flags.overflow
    BY <1>4, <2>2
  <2>4. eval' = e
    BY <1>6, <1>8
  <2>5. ASSUME ~Copies(eval, Odd), eval.cycle # 7 PROVE Still
    BY <1>2, <1>3, <2>3, <2>5 DEF Still
  <2>6. ASSUME Copies(eval, Odd), NEW b \in 0 .. 3, eval.cycle = 2 * b + 1 PROVE Puts(b)
    <3>1. eval.cycle \div 2 = b
      BY <2>6
    <3> QED
      BY <1>3, <1>8, <2>3, <2>6, <3>1 DEF Copied, Puts
  <2>7. CASE eval.cycle = 0
    <3>1. Odd /\ ~Copies(eval, Odd)
      BY <2>1, <2>7 DEF Copies
    <3>2. e = ReadY(eval, beam.line)
      BY <1>0, <1>8, <2>7, <3>1, EvaluatedCases
    <3>3. Still
      BY <2>5, <2>7, <3>1
    <3>4. eval' = EvalOf(eval.found, eval.n, eval.m, 1, OnLine(oam[4 * eval.n], beam.line))
      BY <1>0, <2>4, <3>2, Steps
    <3> QED
      BY <1>8, <2>7, <3>3, <3>4
  <2>8. CASE eval.cycle = 1 /\ ~eval.inRange
    <3>1. ~Odd /\ ~Copies(eval, Odd) /\ eval.cycle # 7
      BY <2>1, <2>8 DEF Copies
    <3>2. e = Skip(eval)
      BY <1>0, <1>8, <2>8, <3>1, EvaluatedCases
    <3>3. Still
      BY <2>5, <3>1
    <3>4. eval' = EvalOf(eval.found, eval.n + 1, eval.m, 0, eval.inRange)
      BY <1>0, <2>4, <3>2, Steps
    <3> QED
      BY <1>8, <2>8, <3>3, <3>4
  <2>9. CASE eval.cycle \in {2, 4, 6}
    <3>1. Odd /\ ~Copies(eval, Odd) /\ eval.cycle # 7
      BY <2>1, <2>9 DEF Copies
    <3>2. e = [eval EXCEPT !.cycle = @ + 1]
      BY <1>0, <1>8, <2>9, <3>1, EvaluatedCases
    <3>3. Still
      BY <2>5, <3>1
    <3>4. eval' = EvalOf(eval.found, eval.n, eval.m, eval.cycle + 1, eval.inRange)
      BY <1>0, <2>4, <3>2, Steps
    <3> QED
      BY <1>8, <2>9, <3>3, <3>4
  <2>10. CASE eval.cycle \in {1, 3, 5} /\ (eval.cycle = 1 => eval.inRange)
    <3>1. ~Odd /\ Copies(eval, Odd)
      BY <1>8, <2>1, <2>10 DEF Copies
    <3>2. \E b \in 0 .. 2 : eval.cycle = 2 * b + 1
      BY <2>10
    <3>3. \E b \in 0 .. 2 : eval.cycle = 2 * b + 1 /\ Puts(b)
      BY <2>6, <3>1, <3>2
    <3>4. next'.zero = next.zero
      BY <1>2, <2>10
    <3>5. eval' = EvalOf(eval.found, eval.n, eval.m, eval.cycle + 1, eval.inRange)
      <4>1. CASE eval.cycle = 1
        <5>1. e = [eval EXCEPT !.cycle = 2]
          BY <1>0, <1>8, <2>10, <3>1, <4>1, EvaluatedCases
        <5> QED
          BY <1>0, <2>4, <4>1, <5>1, Steps
      <4>2. CASE eval.cycle \in {3, 5}
        <5>1. e = [eval EXCEPT !.cycle = @ + 1]
          BY <1>0, <1>8, <3>1, <4>2, EvaluatedCases
        <5> QED
          BY <1>0, <2>4, <5>1, Steps
      <4> QED
        BY <2>10, <4>1, <4>2
    <3> QED
      BY <1>8, <2>10, <3>3, <3>4, <3>5
  <2>11. CASE eval.cycle = 7
    <3>1. ~Odd /\ Copies(eval, Odd)
      BY <1>8, <2>1, <2>11 DEF Copies
    <3>2. e = Taken(eval)
      BY <1>0, <1>8, <2>11, <3>1, EvaluatedCases
    <3>3. Puts(3)
      BY <2>6, <2>11, <3>1
    <3>4. next'.zero = IF eval.n = 0 THEN eval.found ELSE next.zero
      BY <1>2, <1>8, <2>11, <3>1
    <3>5. eval' = EvalOf(eval.found + 1, eval.n + 1, eval.m, 0, eval.inRange)
      BY <1>0, <2>4, <3>2, Steps
    <3> QED
      BY <1>8, <2>11, <3>3, <3>4, <3>5
  <2> QED
    BY <1>1, <2>7, <2>8, <2>9, <2>10, <2>11
<1> QED
  BY <1>1, <1>5, <1>7, <1>8, Sizes

\* A dot of the evaluation of a planned line, and what its steps share.
Evaluating == Inv /\ Dot /\ Live /\ plan # None /\ beam'.dot \in Slots + 1 .. LastEval /\ EvalDot

LEMMA OnEval ==
  ASSUME Evaluating
  PROVE  /\ oam' = oam /\ ctrl' = ctrl /\ beam'.line = beam.line /\ plan' = plan /\ Here' = Here
         /\ ScanFinds(beam.line)' = ScanFinds(beam.line)
         /\ \A y : OnLine(y, beam.line)' = OnLine(y, beam.line)
         /\ InTime /\ Ranked /\ Scanning /\ Kept /\ Taking /\ Buffered
         /\ eval.found \in Nat /\ eval.found <= Slots /\ eval.n \in Nat /\ eval.n <= Count
         /\ eval.m \in 0 .. 3 /\ eval.cycle \in 0 .. 7 /\ eval.inRange \in BOOLEAN
         /\ eval.n < Count => eval.n \in Places
         /\ Here \in SUBSET Places
<1>1. beam'.dot > 0
  BY Sizes DEF Evaluating
<1>2. /\ oam' = oam /\ ctrl' = ctrl /\ beam'.line = beam.line /\ Here' = Here
      /\ ScanFinds(beam.line)' = ScanFinds(beam.line)
      /\ InTime /\ Ranked /\ Scanning /\ Kept /\ Taking /\ Buffered
  BY <1>1, OnPlan DEF Evaluating
<1>3. plan' = plan
  BY DEF Evaluating, EvalDot
<1>4. \A y : OnLine(y, beam.line)' = OnLine(y, beam.line)
  BY <1>2 DEF OnLine
<1>5. eval \in Evals
  BY DEF Evaluating, Inv, TypeOK
<1>6. /\ eval.found \in Nat /\ eval.found <= Slots /\ eval.n \in Nat /\ eval.n <= Count
      /\ eval.m \in 0 .. 3 /\ eval.cycle \in 0 .. 7 /\ eval.inRange \in BOOLEAN
  BY <1>5, EvalFields
<1>7. eval.n < Count => eval.n \in Places
  BY <1>6, Sizes DEF Places
<1> QED
  BY <1>2, <1>3, <1>4, <1>6, <1>7, InRangePlaces DEF Here

LEMMA InTimeEval == ASSUME Evaluating PROVE InTime'
<1>0. /\ beam'.line = beam.line /\ oam' = oam
      /\ \A y : OnLine(y, beam.line)' = OnLine(y, beam.line)
      /\ eval.found \in Nat /\ eval.found <= Slots /\ eval.n \in Nat /\ eval.n <= Count
      /\ eval.cycle \in 0 .. 7
  BY OnEval
<1>1. eval.n < Count =>
        /\ Spent \in Nat /\ Spent' = Spent + 1
        /\ eval.found < Slots => Spent = 6 * eval.found + 2 * eval.n + eval.cycle
        /\ eval.found = Slots /\ Odd => Spent = 6 * Slots + 2 * eval.n
        /\ eval.found = Slots /\ ~Odd => Spent = 6 * Slots + 2 * eval.n + 1
  BY Parity DEF Evaluating
<1>2. CASE eval.n = Count /\ eval' = eval
  BY <1>2, Sizes DEF InTime
<1>3. CASE /\ eval.n < Count /\ eval.found = Slots /\ Odd
           /\ eval' = EvalOf(eval.found, eval.n, eval.m, eval.cycle,
                            OnLine(oam[4 * eval.n + eval.m], beam.line))
  <2>1. /\ eval'.n = eval.n /\ eval'.found = Slots /\ eval'.m = eval.m
        /\ eval'.inRange = OnLine(oam[4 * eval.n + eval.m], beam.line)
    BY <1>3 DEF EvalOf
  <2>2. Spent' = 6 * Slots + 2 * eval'.n + 1
    BY <1>0, <1>1, <1>3, <2>1, Sizes
  <2>3. eval'.inRange <=> OnLine(oam[4 * eval.n + eval.m], beam.line)'
    BY <1>0, <2>1
  <2>4. OnLine(oam[4 * eval.n + eval.m], beam.line)' = OnLine(oam[4 * eval.n + eval.m], beam.line)
    BY <1>0, <2>1 DEF OnLine
  <2> QED
    BY <2>1, <2>2, <2>3, <2>4, Sizes DEF InTime
<1>4. CASE /\ eval.n < Count /\ eval.found = Slots /\ ~Odd
           /\ eval' = EvalOf(eval.found, eval.n + 1, (eval.m + 1) % 4, eval.cycle, eval.inRange)
  <2>1. eval'.n = eval.n + 1 /\ eval'.found = Slots
    BY <1>4 DEF EvalOf
  <2>2. Spent' = 6 * Slots + 2 * eval'.n
    BY <1>0, <1>1, <1>4, <2>1, Sizes
  <2> QED
    BY <2>1, <2>2, Sizes DEF InTime
<1>5. CASE /\ eval.n < Count /\ eval.found < Slots
           /\ \E c \in 0 .. 6 : \E r : eval.cycle = c /\ eval' = EvalOf(eval.found, eval.n, eval.m, c + 1, r)
  <2>1. eval'.n = eval.n /\ eval'.found = eval.found /\ eval'.cycle = eval.cycle + 1
    BY <1>5 DEF EvalOf
  <2>2. Spent' = 6 * eval'.found + 2 * eval'.n + eval'.cycle
    BY <1>0, <1>1, <1>5, <2>1, Sizes
  <2> QED
    BY <1>5, <2>1, <2>2, Sizes DEF InTime
<1>6. CASE /\ eval.n < Count /\ eval.found < Slots /\ eval.cycle = 1
           /\ eval' = EvalOf(eval.found, eval.n + 1, eval.m, 0, eval.inRange)
  <2>1. eval'.n = eval.n + 1 /\ eval'.found = eval.found /\ eval'.cycle = 0
    BY <1>6 DEF EvalOf
  <2>2. Spent' = 6 * eval'.found + 2 * eval'.n + eval'.cycle
    BY <1>0, <1>1, <1>6, <2>1, Sizes
  <2> QED
    BY <1>6, <2>1, <2>2, Sizes DEF InTime
<1>7. CASE /\ eval.n < Count /\ eval.found < Slots /\ eval.cycle = 7
           /\ eval' = EvalOf(eval.found + 1, eval.n + 1, eval.m, 0, eval.inRange)
  <2>1. eval'.n = eval.n + 1 /\ eval'.found = eval.found + 1 /\ eval'.cycle = 0
    BY <1>7 DEF EvalOf
  <2>2. Spent' = 6 * eval'.found + 2 * eval'.n + eval'.cycle
    BY <1>0, <1>1, <1>7, <2>1, Sizes
  <2>3. eval'.found <= Slots
    BY <1>0, <1>7, <2>1, Sizes
  <2>4. ~(eval'.found < Slots) => Spent' = 6 * Slots + 2 * eval'.n
    BY <1>0, <2>1, <2>2, <2>3, Sizes
  <2> QED
    BY <2>2, <2>4 DEF InTime
<1>8. CASE /\ eval.n < Count /\ eval.found < Slots /\ eval.cycle = 0
           /\ eval' = EvalOf(eval.found, eval.n, eval.m, 1, OnLine(oam[4 * eval.n], beam.line))
  BY <1>5, <1>8
<1>9. CASE /\ eval.n < Count /\ eval.found < Slots /\ eval.cycle \in {1, 2, 3, 4, 5, 6}
           /\ eval' = EvalOf(eval.found, eval.n, eval.m, eval.cycle + 1, eval.inRange)
  BY <1>5, <1>9
<1> QED
  BY <1>2, <1>3, <1>4, <1>6, <1>7, <1>8, <1>9, EvalCases DEF Evaluating

\* A step that finds the slots not full leaves them not full, or takes the sprite.
LEMMA FreeCases ==
  ASSUME Evaluating
  PROVE  \/ /\ eval'.n = eval.n /\ eval'.found = eval.found /\ eval'.m = eval.m
            /\ flags'.overflow = flags.overflow /\ next'.zero = next.zero
            /\ eval.found = Slots => eval'.cycle = eval.cycle
         \/ /\ eval.n < Count /\ eval.found = Slots /\ ~Odd
            /\ eval'.n = eval.n + 1 /\ eval'.found = eval.found /\ eval'.m = (eval.m + 1) % 4
            /\ eval'.cycle = eval.cycle
            /\ flags'.overflow = (flags.overflow \/ eval.inRange) /\ next'.zero = next.zero
         \/ /\ eval.n < Count /\ eval.found < Slots /\ eval.n \notin Here
            /\ eval'.n = eval.n + 1 /\ eval'.found = eval.found /\ eval'.m = eval.m
            /\ flags'.overflow = flags.overflow /\ next'.zero = next.zero
         \/ /\ eval.n < Count /\ eval.found < Slots /\ eval.n \in Here
            /\ eval'.n = eval.n + 1 /\ eval'.found = eval.found + 1 /\ eval'.m = eval.m
            /\ eval'.cycle = 0 /\ flags'.overflow = flags.overflow
            /\ next'.zero = IF eval.n = 0 THEN eval.found ELSE next.zero
<1>0. eval.cycle \in 0 .. 7 /\ Taking /\ eval.found \in Nat
  BY OnEval
<1>1. CASE eval.n = Count /\ eval' = eval /\ Still
  BY <1>1 DEF Still
<1>2. CASE \E c, r : Still /\ eval.found = Slots /\ eval' = EvalOf(eval.found, eval.n, eval.m, eval.cycle, r)
  BY <1>2 DEF Still, EvalOf
<1>3. CASE /\ eval.n < Count /\ eval.found = Slots /\ ~Odd
           /\ eval' = EvalOf(eval.found, eval.n + 1, (eval.m + 1) % 4, eval.cycle, eval.inRange)
           /\ secondary' = secondary /\ next'.zero = next.zero
           /\ flags'.overflow = (flags.overflow \/ eval.inRange)
  BY <1>3 DEF EvalOf
<1>4. CASE /\ eval.found < Slots /\ flags'.overflow = flags.overflow /\ next'.zero = next.zero
           /\ \E c, r : eval' = EvalOf(eval.found, eval.n, eval.m, c, r)
  <2>1. eval.found # Slots
    BY <1>0, <1>4, Sizes
  <2> QED
    BY <1>4, <2>1 DEF EvalOf
<1>5. CASE /\ eval.n < Count /\ eval.found < Slots /\ eval.cycle = 1 /\ ~eval.inRange /\ Still
           /\ eval' = EvalOf(eval.found, eval.n + 1, eval.m, 0, eval.inRange)
  <2>1. eval.n \notin Here
    BY <1>0, <1>5 DEF Taking
  <2> QED
    BY <1>5, <2>1 DEF Still, EvalOf
<1>6. CASE /\ eval.n < Count /\ eval.found < Slots /\ eval.cycle = 7 /\ Puts(3)
           /\ next'.zero = IF eval.n = 0 THEN eval.found ELSE next.zero
           /\ eval' = EvalOf(eval.found + 1, eval.n + 1, eval.m, 0, eval.inRange)
  <2>1. eval.n \in Here
    BY <1>0, <1>6 DEF Taking
  <2> QED
    BY <1>6, <2>1 DEF Puts, EvalOf
<1> QED
  BY <1>1, <1>2, <1>3, <1>4, <1>5, <1>6, EvalCases DEF Evaluating, Still, Puts

LEMMA RankedEval == ASSUME Evaluating PROVE Ranked'
<1>0. /\ plan' = plan /\ Here' = Here /\ ScanFinds(beam.line)' = ScanFinds(beam.line) /\ Ranked
      /\ eval.found \in Nat /\ eval.found <= Slots /\ eval.n \in Nat
      /\ eval.n < Count => eval.n \in Places
      /\ Here \in SUBSET Places
  BY OnEval
<1>1. \A n : Rank(n, Here)' = Rank(n, Here)
  BY <1>0 DEF Rank
<1>2. CASE /\ eval'.n = eval.n /\ eval'.found = eval.found /\ eval'.m = eval.m
           /\ flags'.overflow = flags.overflow
  BY <1>0, <1>1, <1>2 DEF Ranked
<1>3. CASE eval.found = Slots /\ eval'.found = eval.found
  BY <1>3, Sizes DEF Ranked
<1>4. CASE /\ eval.n < Count /\ eval.found < Slots /\ eval.n \notin Here
           /\ eval'.n = eval.n + 1 /\ eval'.found = eval.found /\ eval'.m = eval.m
           /\ flags'.overflow = flags.overflow
  <2>1. Rank(eval.n + 1, Here) = Rank(eval.n, Here)
    BY <1>0, <1>4, RankStep
  <2>2. Rank(eval'.n, Here') = eval'.found
    BY <1>0, <1>4, <2>1 DEF Ranked
  <2> QED
    BY <1>0, <1>4, <2>2 DEF Ranked
<1>5. CASE /\ eval.n < Count /\ eval.found < Slots /\ eval.n \in Here
           /\ eval'.n = eval.n + 1 /\ eval'.found = eval.found + 1 /\ eval'.m = eval.m
           /\ flags'.overflow = flags.overflow
  <2>1. Rank(eval.n + 1, Here) = Rank(eval.n, Here) + 1
    BY <1>0, <1>5, RankStep
  <2>2. Rank(eval'.n, Here') = eval'.found
    BY <1>0, <1>5, <2>1 DEF Ranked
  <2> QED
    BY <1>0, <1>5, <2>2 DEF Ranked
<1> QED
  BY <1>2, <1>3, <1>4, <1>5, FreeCases

\* When the last slot is taken, the scan that is left is the one that the line has to make.
LEMMA ScanStarts ==
  ASSUME Here \in SUBSET Places, NEW n \in Here, Rank(n, Here) = Slots - 1
  PROVE  ScanFinds(beam.line) <=> Finds(n, n + 1)
<1>1. n \in Places /\ n \in Nat /\ n + 1 \in Nat /\ n + 1 <= Count /\ Count \in Nat
  BY Sizes DEF Places
<1>2. Rank(n + 1, Here) = Slots
  BY <1>1, RankStep, Sizes
<1>3. Cardinality(Here) >= Slots
  <2>1. Rank(n + 1, Here) <= Rank(Count, Here)
    BY <1>1, RankMonotone
  <2>2. Rank(Count, Here) = Cardinality(Here)
    BY RankAll
  <2> QED
    BY <1>2, <2>1, <2>2, RankType, Sizes
<1>4. \A q \in Here : Rank(q, Here) = Slots - 1 => q = n
  BY RankInjective
<1>5. (CHOOSE q \in Here : Rank(q, Here) = Slots - 1) = n
  BY <1>4
<1> QED
  BY <1>3, <1>5 DEF ScanFinds, Finds, Here

LEMMA ScanningEval == ASSUME Evaluating PROVE Scanning'
<1>0. /\ plan' = plan /\ Here' = Here /\ ScanFinds(beam.line)' = ScanFinds(beam.line)
      /\ oam' = oam /\ ctrl' = ctrl /\ beam'.line = beam.line
      /\ Ranked /\ Scanning
      /\ eval.found \in Nat /\ eval.found <= Slots /\ eval.n \in Nat /\ eval.m \in 0 .. 3
      /\ eval.n < Count => eval.n \in Places
      /\ Here \in SUBSET Places
      /\ flags.overflow \in BOOLEAN /\ eval.inRange \in BOOLEAN
  BY OnEval DEF Evaluating, Inv, TypeOK
<1>1. \A n : Rank(n, Here)' = Rank(n, Here)
  BY <1>0 DEF Rank
<1>2. \A last, n : Finds(last, n)' = Finds(last, n)
  BY <1>0, SameFinds
<1>3. \A q \in Here : q \in Nat
  BY <1>0, Sizes DEF Places
<1>4. CASE /\ eval'.n = eval.n /\ eval'.found = eval.found /\ eval'.m = eval.m
           /\ flags'.overflow = flags.overflow
           /\ eval.found = Slots => eval'.cycle = eval.cycle
  BY <1>0, <1>1, <1>2, <1>4 DEF Scanning
<1>5. CASE /\ eval.n < Count /\ eval.found = Slots /\ ~Odd
           /\ eval'.n = eval.n + 1 /\ eval'.found = eval.found /\ eval'.m = (eval.m + 1) % 4
           /\ eval'.cycle = eval.cycle
           /\ flags'.overflow = (flags.overflow \/ eval.inRange)
  <2>1. PICK last \in Here : /\ last < eval.n /\ Rank(last, Here) = Slots - 1
                             /\ eval.m = ((eval.n - last) - 1) % 4
                             /\ plan.overflow <=> flags.overflow \/ Finds(last, eval.n)
    BY <1>0, <1>5 DEF Scanning
  <2>2. eval.inRange <=> OnLine(oam[4 * eval.n + eval.m], beam.line)
    BY <1>5, Parity DEF Evaluating
  <2>3. last < eval'.n /\ eval'.m = ((eval'.n - last) - 1) % 4
    <3>1. PICK k \in Nat : k = (eval.n - last) - 1
      BY <1>0, <1>3, <2>1
    <3>2. ((k % 4) + 1) % 4 = (k + 1) % 4
      BY <3>1
    <3>3. (eval'.n - last) - 1 = k + 1
      BY <1>0, <1>3, <1>5, <3>1
    <3>4. last < eval.n + 1
      BY <1>0, <1>3, <2>1
    <3> QED
      BY <1>5, <2>1, <3>1, <3>2, <3>3, <3>4
  <2>4. Finds(last, eval.n) <=> OnLine(oam[4 * eval.n + eval.m], beam.line) \/ Finds(last, eval.n + 1)
    <3>1. \A q : q \in eval.n .. Count - 1 <=> q = eval.n \/ q \in eval.n + 1 .. Count - 1
      BY <1>0, <1>5, Sizes
    <3> QED
      BY <2>1, <3>1 DEF Finds
  <2>5. plan.overflow <=> (flags.overflow \/ eval.inRange) \/ Finds(last, eval.n + 1)
    BY <2>1, <2>2, <2>4
  <2>6. (plan.overflow <=> flags.overflow \/ Finds(last, eval.n))'
    <3>1. plan'.overflow = plan.overflow
      BY <1>0
    <3>2. Finds(last, eval.n)' <=> Finds(last, eval.n + 1)
      BY <1>0, <1>5 DEF Finds, OnLine
    <3> QED
      BY <1>5, <2>5, <3>1, <3>2
  <2>7. eval'.cycle = 0
    BY <1>0, <1>5 DEF Scanning
  <2>8. last \in Here' /\ Rank(last, Here') = Slots - 1
    BY <1>0, <2>1
  <2> QED
    BY <2>3, <2>6, <2>7, <2>8 DEF Scanning
<1>6. CASE eval.found < Slots /\ eval'.found = eval.found
  BY <1>0, <1>6, Sizes DEF Scanning
<1>7. CASE /\ eval.n < Count /\ eval.found < Slots /\ eval.n \in Here
           /\ eval'.n = eval.n + 1 /\ eval'.found = eval.found + 1 /\ eval'.m = eval.m
           /\ eval'.cycle = 0 /\ flags'.overflow = flags.overflow
  <2> SUFFICES ASSUME eval'.found = Slots PROVE Scanning'
    BY DEF Scanning
  <2>1. Rank(eval.n, Here) = Slots - 1 /\ eval.m = 0
    BY <1>0, <1>7 DEF Ranked
  <2>2. ScanFinds(beam.line) <=> Finds(eval.n, eval.n + 1)
    BY <1>0, <1>7, <2>1, ScanStarts
  <2>3. plan.overflow <=> flags.overflow \/ Finds(eval.n, eval.n + 1)
    BY <1>0, <1>7, <2>2 DEF Ranked
  <2>4. eval.n < eval'.n /\ eval'.m = ((eval'.n - eval.n) - 1) % 4
    BY <1>0, <1>7, <2>1
  <2>5. PICK last : last = eval.n
    OBVIOUS
  <2>6. (plan.overflow <=> flags.overflow \/ Finds(last, eval.n))'
    <3>1. plan'.overflow = plan.overflow
      BY <1>0
    <3>2. Finds(last, eval.n)' <=> Finds(last, eval.n + 1)
      BY <1>0, <1>7 DEF Finds, OnLine
    <3> QED
      BY <1>7, <2>3, <2>5, <3>1, <3>2
  <2>7. last \in Here' /\ Rank(last, Here') = Slots - 1
    BY <1>0, <1>7, <2>1, <2>5
  <2>8. last < eval'.n /\ eval'.m = ((eval'.n - last) - 1) % 4 /\ eval'.cycle = 0
    BY <1>7, <2>4, <2>5
  <2> QED
    BY <2>6, <2>7, <2>8 DEF Scanning
<1> QED
  BY <1>4, <1>5, <1>6, <1>7, FreeCases

\* A copied byte lands in the slot being filled, and only there.
LEMMA PutsByte ==
  ASSUME Evaluating, eval.found < Slots, NEW c \in 0 .. 3, Puts(c)
  PROVE  /\ secondary'[4 * eval.found + c] = oam[4 * eval.n + c]
         /\ \A b \in 0 .. 3 : b # c => secondary'[4 * eval.found + b] = secondary[4 * eval.found + b]
         /\ \A i \in 0 .. eval.found - 1, b \in 0 .. 3 : secondary'[4 * i + b] = secondary[4 * i + b]
<1>1. secondary \in [0 .. 4 * Slots - 1 -> Bytes] /\ eval.found \in Nat
  BY OnEval DEF Evaluating, Inv, TypeOK
<1>2. PICK v : v = oam[4 * eval.n + c]
  OBVIOUS
<1>3. PICK at : at = 4 * eval.found + c
  OBVIOUS
<1>4. secondary' = [secondary EXCEPT ![at] = v]
  BY <1>2, <1>3 DEF Puts
<1>5. at \in 0 .. 4 * Slots - 1
  BY <1>1, <1>3, Sizes
<1>6. secondary'[at] = v
  BY <1>1, <1>4, <1>5
<1>7. ASSUME NEW j \in 0 .. 4 * Slots - 1, j # at PROVE secondary'[j] = secondary[j]
  BY <1>1, <1>4, <1>7
<1>8. ASSUME NEW b \in 0 .. 3, b # c
      PROVE  secondary'[4 * eval.found + b] = secondary[4 * eval.found + b]
  <2>1. 4 * eval.found + b \in 0 .. 4 * Slots - 1 /\ 4 * eval.found + b # at
    BY <1>1, <1>3, <1>8, Sizes
  <2> QED
    BY <1>7, <2>1
<1>9. ASSUME NEW i \in 0 .. eval.found - 1, NEW b \in 0 .. 3
      PROVE  secondary'[4 * i + b] = secondary[4 * i + b]
  <2>1. 4 * i + b \in 0 .. 4 * Slots - 1 /\ 4 * i + b # at
    BY <1>1, <1>3, Sizes
  <2> QED
    BY <1>7, <2>1
<1> QED
  BY <1>2, <1>3, <1>6, <1>8, <1>9

\* What is in the slots stays there, and the sprite that is taken is in its own.
LEMMA KeptEval == ASSUME Evaluating PROVE Kept'
<1>0. /\ Here' = Here /\ oam' = oam /\ Ranked /\ Kept /\ Taking
      /\ eval.found \in Nat /\ eval.found <= Slots /\ eval.cycle \in 0 .. 7
  BY OnEval
<1>1. \A n : Rank(n, Here)' = Rank(n, Here)
  BY <1>0 DEF Rank
<1>2. ASSUME eval'.found = eval.found,
             \A i \in 0 .. eval.found - 1, b \in 0 .. 3 : secondary'[4 * i + b] = secondary[4 * i + b]
      PROVE  Kept'
  BY <1>0, <1>1, <1>2 DEF Kept, Holds
<1>3. CASE secondary' = secondary /\ eval'.found = eval.found
  BY <1>2, <1>3
<1>4. CASE /\ eval.found < Slots /\ eval'.found = eval.found
           /\ \E b \in 0 .. 2 : Puts(b)
  <2>1. \A i \in 0 .. eval.found - 1, b \in 0 .. 3 : secondary'[4 * i + b] = secondary[4 * i + b]
    BY <1>4, PutsByte
  <2> QED
    BY <1>2, <1>4, <2>1
<1>5. CASE /\ eval.n < Count /\ eval.found < Slots /\ eval.cycle = 7 /\ Puts(3)
           /\ eval' = EvalOf(eval.found + 1, eval.n + 1, eval.m, 0, eval.inRange)
  <2>1. eval'.found = eval.found + 1
    BY <1>5 DEF EvalOf
  <2>2. /\ \A i \in 0 .. eval.found - 1, b \in 0 .. 3 : secondary'[4 * i + b] = secondary[4 * i + b]
        /\ \A b \in 0 .. 3 : b # 3 => secondary'[4 * eval.found + b] = secondary[4 * eval.found + b]
        /\ secondary'[4 * eval.found + 3] = oam[4 * eval.n + 3]
    BY <1>5, PutsByte
  <2>3. eval.n \in Here
    BY <1>0, <1>5 DEF Taking
  <2>4. Rank(eval.n, Here) = eval.found
    BY <1>0, <1>5 DEF Ranked
  <2>5. \A b \in 0 .. 3 : secondary'[4 * eval.found + b] = oam[4 * eval.n + b]
    <3>1. \A b \in 0 .. 2 : secondary[4 * eval.found + b] = oam[4 * eval.n + b]
      BY <1>0, <1>5 DEF Taking
    <3> QED
      BY <2>2, <3>1
  <2>6. ASSUME NEW i \in 0 .. eval.found
        PROVE  \E p \in Here : Rank(p, Here) = i /\ \A b \in 0 .. 3 : secondary'[4 * i + b] = oam[4 * p + b]
    <3>1. CASE i = eval.found
      BY <2>3, <2>4, <2>5, <3>1
    <3>2. CASE i # eval.found
      <4>1. i \in 0 .. eval.found - 1
        BY <1>0, <3>2
      <4>2. PICK p \in Here : Rank(p, Here) = i /\ \A b \in 0 .. 3 : secondary[4 * i + b] = oam[4 * p + b]
        BY <1>0, <4>1 DEF Kept, Holds
      <4>3. \A b \in 0 .. 3 : secondary'[4 * i + b] = oam[4 * p + b]
        BY <2>2, <4>1, <4>2
      <4> QED
        BY <4>2, <4>3
    <3> QED
      BY <3>1, <3>2
  <2>7. \A i \in 0 .. eval'.found - 1 : i \in 0 .. eval.found
    BY <1>0, <2>1
  <2> QED
    BY <1>0, <2>6, <2>7 DEF Kept, Holds
<1>6. CASE secondary' = secondary /\ \E n, m, c, r : eval' = EvalOf(eval.found, n, m, c, r)
  <2>1. eval'.found = eval.found
    BY <1>6 DEF EvalOf
  <2> QED
    BY <1>3, <1>6, <2>1
<1>7. CASE /\ eval.found < Slots /\ (\E b \in 0 .. 2 : Puts(b))
           /\ \E n, m, c, r : eval' = EvalOf(eval.found, n, m, c, r)
  <2>1. eval'.found = eval.found
    BY <1>7 DEF EvalOf
  <2> QED
    BY <1>4, <1>7, <2>1
<1> QED
  BY <1>3, <1>5, <1>6, <1>7, EvalCases DEF Evaluating, Still

\* The sprite under evaluation: in range or not, and copied as far as its cycle says.
LEMMA TakingEval == ASSUME Evaluating PROVE Taking'
<1>0. /\ Here' = Here /\ oam' = oam /\ Taking
      /\ eval.found \in Nat /\ eval.found <= Slots /\ eval.cycle \in 0 .. 7
      /\ eval.n < Count => eval.n \in Places
      /\ eval.n \in Nat /\ eval.n <= Count
  BY OnEval
<1>1. CASE eval.n = Count /\ eval' = eval
  BY <1>0, <1>1, Sizes DEF Taking
<1>2. CASE eval.found = Slots /\ \E n, m, c, r : eval' = EvalOf(eval.found, n, m, c, r)
  <2>1. eval'.found = Slots
    BY <1>2 DEF EvalOf
  <2> QED
    BY <2>1, Sizes DEF Taking
<1>3. CASE /\ eval.n < Count /\ eval.found < Slots /\ eval.cycle = 0 /\ Still
           /\ eval' = EvalOf(eval.found, eval.n, eval.m, 1, OnLine(oam[4 * eval.n], beam.line))
  <2>1. /\ eval'.n = eval.n /\ eval'.found = eval.found /\ eval'.cycle = 1
        /\ eval'.inRange = OnLine(oam[4 * eval.n], beam.line)
    BY <1>3 DEF EvalOf
  <2>2. OnLine(oam[4 * eval.n], beam.line) <=> eval.n \in Here
    BY <1>0, <1>3 DEF Here, InRange, Places
  <2> QED
    BY <1>0, <2>1, <2>2 DEF Taking
<1>4. CASE \E f, n, m, r : eval' = EvalOf(f, n, m, 0, r)
  <2>1. eval'.cycle = 0
    BY <1>4 DEF EvalOf
  <2> QED
    BY <2>1 DEF Taking
<1>5. CASE /\ eval.n < Count /\ eval.found < Slots /\ eval.cycle \in {2, 4, 6} /\ Still
           /\ eval' = EvalOf(eval.found, eval.n, eval.m, eval.cycle + 1, eval.inRange)
  <2>1. /\ eval'.n = eval.n /\ eval'.found = eval.found /\ eval'.cycle = eval.cycle + 1
        /\ eval'.inRange = eval.inRange
    BY <1>5 DEF EvalOf
  <2>2. (eval.inRange <=> eval.n \in Here) /\ eval.inRange
    BY <1>0, <1>5 DEF Taking
  <2>3. \A b \in 0 .. 3 : 2 * b + 2 <= eval.cycle + 1 =>
          secondary'[4 * eval.found + b] = oam[4 * eval.n + b]
    <3>1. \A b \in 0 .. 3 : 2 * b + 2 <= eval.cycle + 1 => 2 * b + 2 <= eval.cycle
      BY <1>5
    <3> QED
      BY <1>0, <1>5, <3>1 DEF Taking, Still
  <2> QED
    BY <1>0, <2>1, <2>2, <2>3 DEF Taking
<1>6. CASE /\ eval.n < Count /\ eval.found < Slots
           /\ \E b \in 0 .. 2 : eval.cycle = 2 * b + 1 /\ Puts(b)
           /\ eval.cycle = 1 => eval.inRange
           /\ eval' = EvalOf(eval.found, eval.n, eval.m, eval.cycle + 1, eval.inRange)
  <2>1. /\ eval'.n = eval.n /\ eval'.found = eval.found /\ eval'.cycle = eval.cycle + 1
        /\ eval'.inRange = eval.inRange
    BY <1>6 DEF EvalOf
  <2>2. PICK c \in 0 .. 2 : eval.cycle = 2 * c + 1 /\ Puts(c)
    BY <1>6
  <2>3. eval.inRange /\ (eval.inRange <=> eval.n \in Here)
    <3>1. eval.cycle = 1 \/ eval.cycle >= 2
      BY <1>0, <2>2
    <3>2. eval.cycle >= 1
      BY <2>2
    <3> QED
      BY <1>0, <1>6, <3>1, <3>2 DEF Taking
  <2>4. /\ secondary'[4 * eval.found + c] = oam[4 * eval.n + c]
        /\ \A b \in 0 .. 3 : b # c => secondary'[4 * eval.found + b] = secondary[4 * eval.found + b]
    BY <1>6, <2>2, PutsByte
  <2>5. ASSUME NEW b \in 0 .. 3, 2 * b + 2 <= eval.cycle + 1
        PROVE  secondary'[4 * eval.found + b] = oam[4 * eval.n + b]
    <3>1. CASE b = c
      BY <2>4, <3>1
    <3>2. CASE b # c
      <4>1. 2 * b + 2 <= eval.cycle
        BY <2>2, <2>5, <3>2
      <4> QED
        BY <1>0, <1>6, <2>4, <3>2, <4>1 DEF Taking
    <3> QED
      BY <3>1, <3>2
  <2> QED
    BY <1>0, <2>1, <2>3, <2>5 DEF Taking
<1> QED
  BY <1>1, <1>2, <1>3, <1>4, <1>5, <1>6, EvalCases DEF Evaluating

LEMMA BufferedEval == ASSUME Evaluating PROVE Buffered'
<1>0. /\ Here' = Here /\ Ranked /\ Scanning /\ Buffered
      /\ eval.found \in Nat /\ eval.found <= Slots /\ eval.n \in Nat
      /\ Here \in SUBSET Places
      /\ beam'.dot \in Slots + 1 .. LastEval /\ TypeOK
  BY OnEval DEF Evaluating, Inv
<1>1. beam'.dot = LastEval => next'.count = eval'.found
  <2>1. beam'.dot \in Nat
    BY <1>0, Sizes
  <2> QED
    BY <1>0, <2>1, EvalFacts DEF Evaluating
<1>2. \A q \in Here : q \in Nat
  BY <1>0, Sizes DEF Places
<1>3. next'.zero = IF eval'.n > 0 /\ 0 \in Here THEN 0 ELSE NoSlot
  <2>1. CASE eval'.n = eval.n /\ next'.zero = next.zero
    BY <1>0, <2>1 DEF Buffered
  <2>2. CASE /\ eval.found = Slots /\ eval'.n = eval.n + 1 /\ next'.zero = next.zero
    <3>1. PICK last \in Here : last < eval.n
      BY <1>0, <2>2 DEF Scanning
    <3>2. eval.n > 0 /\ eval'.n > 0
      BY <1>0, <1>2, <2>2, <3>1
    <3> QED
      BY <1>0, <2>2, <3>2 DEF Buffered
  <2>3. CASE eval.n \notin Here /\ eval'.n = eval.n + 1 /\ next'.zero = next.zero
    <3>1. 0 \in Here => eval.n # 0
      BY <2>3
    <3>2. eval'.n > 0 /\ (0 \in Here => eval.n > 0)
      BY <1>0, <2>3, <3>1
    <3> QED
      BY <1>0, <2>3, <3>2 DEF Buffered
  <2>4. CASE /\ eval.n \in Here /\ eval.found < Slots /\ eval'.n = eval.n + 1
             /\ next'.zero = IF eval.n = 0 THEN eval.found ELSE next.zero
    <3>1. CASE eval.n = 0
      <4>1. eval.found = 0
        BY <1>0, <2>4, <3>1, RankZero DEF Ranked
      <4> QED
        BY <2>4, <3>1, <4>1
    <3>2. CASE eval.n # 0
      <4>1. eval.n > 0 /\ eval'.n > 0
        BY <1>0, <2>4, <3>2
      <4> QED
        BY <1>0, <2>4, <3>2, <4>1 DEF Buffered
    <3> QED
      BY <3>1, <3>2
  <2> QED
    BY <2>1, <2>2, <2>3, <2>4, FreeCases
<1>4. beam'.dot >= LastEval => beam'.dot = LastEval
  BY <1>0, Sizes DEF LastEval
<1>5. \A i \in 0 .. eval'.found - 1 : ~(LastEval + 1 + i <= beam'.dot)
  <2>1. eval'.found \in Int
    BY <1>0, EvalFacts, Sizes DEF Evaluating, PipelineType, Evals
  <2> QED
    BY <1>0, <2>1, Sizes DEF LastEval
<1> QED
  BY <1>0, <1>1, <1>3, <1>4, <1>5 DEF Buffered

LEMMA PlannedEval ==
  ASSUME Inv, Dot, Live, beam'.dot \in Slots + 1 .. LastEval, EvalDot
  PROVE  Planned'
<1>1. CASE plan' = None
  BY <1>1 DEF Planned
<1>2. CASE plan' # None
  <2>1. plan' = plan /\ plan # None
    BY <1>2 DEF EvalDot
  <2>2. Evaluating
    BY <2>1 DEF Evaluating
  <2>3. Undisturbed'
    <3>1. /\ Undisturbed /\ mask' = mask /\ beam'.line = beam.line
          /\ Wanted(beam.line)' = Wanted(beam.line)
      BY <2>1, OnPlan, Sizes
    <3>2. beam'.dot < SwapDot /\ ~(beam'.dot <= Slots)
      BY Sizes DEF SwapDot, LastEval
    <3> QED
      BY <2>1, <3>1, <3>2 DEF Undisturbed, Renders
  <2> QED
    BY <2>2, <2>3, InTimeEval, RankedEval, ScanningEval, KeptEval, TakingEval, BufferedEval DEF Planned
<1> QED
  BY <1>1, <1>2

LEMMA PlannedFetch ==
  ASSUME Inv, Dot, Live, beam'.dot \in LastEval + 1 .. SwapDot - 1, FetchDot
  PROVE  Planned'
<1>1. CASE plan' = None
  BY <1>1 DEF Planned
<1>2. CASE plan' # None
  <2>1. plan' = plan /\ plan # None /\ beam'.dot > 0
    BY <1>2, Sizes DEF FetchDot, LastEval
  <2>2. /\ oam' = oam /\ ctrl' = ctrl /\ mask' = mask
        /\ beam'.line = beam.line /\ beam'.dot = beam.dot + 1 /\ beam.dot \in Nat
        /\ Undisturbed /\ InTime /\ Ranked /\ Scanning /\ Kept /\ Taking /\ Buffered
        /\ Here' = Here /\ Wanted(beam.line)' = Wanted(beam.line)
        /\ ScanFinds(beam.line)' = ScanFinds(beam.line)
    BY <2>1, OnPlan
  <2>3. /\ eval' = eval /\ secondary' = secondary
        /\ next'.zero = next.zero /\ next'.count = next.count
        /\ \A i \in 0 .. eval.found - 1 :
             next'.buf[i] = IF i = beam'.dot - (LastEval + 1) THEN FetchedSlot(i, beam'.line)
                            ELSE next.buf[i]
    BY FetchFacts DEF Inv
  <2>4. flags'.overflow = flags.overflow
    <3>1. ~EvalAt(beam'.dot)
      BY Sizes DEF EvalAt, LastEval
    <3>2. flags.overflow \in BOOLEAN
      BY DEF Inv, TypeOK
    <3> QED
      BY <3>1, <3>2, FlagFacts DEF Live
  <2>5. beam.dot >= LastEval /\ LastEval \in Nat
    BY <2>2, Sizes DEF LastEval
  <2>6. Undisturbed'
    <3>1. beam'.dot < SwapDot /\ ~(beam'.dot <= Slots)
      BY Sizes DEF SwapDot, LastEval
    <3> QED
      BY <2>1, <2>2, <3>1 DEF Undisturbed, Renders
  <2>7. InTime'
    <3>1. Spent = EvalDots /\ Spent' = EvalDots
      BY <2>2, <2>5, Sizes DEF Spent, LastEval
    <3>2. \A y : OnLine(y, beam.line)' = OnLine(y, beam.line)
      BY <2>2 DEF OnLine
    <3> QED
      BY <2>2, <2>3, <3>1, <3>2 DEF InTime
  <2>8. Ranked'
    BY <2>1, <2>2, <2>3, <2>4 DEF Ranked
  <2>9. Scanning'
    BY <2>1, <2>2, <2>3, <2>4, SameFinds DEF Scanning
  <2>10. Kept'
    BY <2>2, <2>3 DEF Kept, Holds
  <2>11. Taking'
    BY <2>2, <2>3 DEF Taking
  <2>12. Buffered'
    <3>1. ASSUME NEW i \in 0 .. eval.found - 1, LastEval + 1 + i <= beam'.dot
          PROVE  next'.buf[i] = FetchedSlot(i, beam.line)'
      <4>1. FetchedSlot(i, beam.line)' = FetchedSlot(i, beam.line)
        BY <2>2, <2>3, SameSlot
      <4>2. CASE i = beam'.dot - (LastEval + 1)
        BY <2>2, <2>3, <4>1, <4>2
      <4>3. CASE i # beam'.dot - (LastEval + 1)
        <5>1. LastEval + 1 + i <= beam.dot
          BY <2>2, <2>5, <3>1, <4>3
        <5>2. next.buf[i] = FetchedSlot(i, beam.line)
          BY <2>2, <5>1 DEF Buffered
        <5> QED
          BY <2>3, <4>1, <4>3, <5>2
      <4> QED
        BY <4>2, <4>3
    <3>2. beam'.dot >= LastEval => next'.count = eval'.found
      BY <2>2, <2>3, <2>5 DEF Buffered
    <3>3. next'.zero = IF eval'.n > 0 /\ 0 \in Here' THEN 0 ELSE NoSlot
      BY <2>2, <2>3 DEF Buffered
    <3>4. \A i \in 0 .. eval'.found - 1 :
            LastEval + 1 + i <= beam'.dot => next'.buf[i] = FetchedSlot(i, beam.line)'
      BY <2>3, <3>1
    <3> QED
      BY <3>2, <3>3, <3>4 DEF Buffered
  <2> QED
    BY <2>6, <2>7, <2>8, <2>9, <2>10, <2>11, <2>12 DEF Planned
<1> QED
  BY <1>1, <1>2

LEMMA PlannedDot == ASSUME Inv, Dot PROVE Planned'
<1>1. CASE Live /\ beam'.dot = 0 /\ StartLine
  BY <1>1, PlannedStart
<1>2. CASE Live /\ beam'.dot \in 1 .. Slots /\ ClearSlot
  BY <1>2, PlannedClear
<1>3. CASE Live /\ beam'.dot \in Slots + 1 .. LastEval /\ EvalDot
  BY <1>3, PlannedEval
<1>4. CASE Live /\ beam'.dot \in LastEval + 1 .. SwapDot - 1 /\ FetchDot
  BY <1>4, PlannedFetch
<1>5. CASE plan' = None
  BY <1>5 DEF Planned
<1> QED
  BY <1>1, <1>2, <1>3, <1>4, <1>5, DotCases DEF NoSprites, SwapBuffers

-----------------------------------------------------------------------------
(* What the evaluation leaves for the swap. *)

\* The dots of the evaluation are enough for the last sprite.
LEMMA EvalDone == ASSUME Inv, plan # None, beam.dot >= LastEval PROVE eval.n = Count
<1>1. InTime /\ beam.dot \in 0 .. SwapDot /\ eval \in Evals
  BY DEF Inv, Planned, TypeOK
<1>2. /\ eval.found \in Nat /\ eval.found <= Slots /\ eval.n \in Nat /\ eval.n <= Count
      /\ eval.cycle \in 0 .. 7
  BY <1>1, EvalFields
<1>3. Spent = EvalDots
  BY <1>1, Sizes DEF Spent, LastEval, SwapDot
<1>4. ASSUME eval.n < Count, eval.found < Slots PROVE FALSE
  <2>1. EvalDots = 6 * eval.found + 2 * eval.n + eval.cycle
    BY <1>1, <1>3, <1>4 DEF InTime
  <2> QED
    BY <1>2, <1>4, <2>1, Sizes
<1>5. ASSUME eval.n < Count, ~(eval.found < Slots) PROVE FALSE
  <2>1. EvalDots = 6 * Slots + 2 * eval.n \/ EvalDots = 6 * Slots + 2 * eval.n + 1
    BY <1>1, <1>3, <1>5 DEF InTime
  <2> QED
    BY <1>2, <1>5, <2>1, Sizes
<1> QED
  BY <1>2, <1>4, <1>5, Sizes

\* It has found the sprites that are on the line, as many as there are slots.
LEMMA FoundAll ==
  ASSUME Inv, plan # None, beam.dot >= LastEval
  PROVE  /\ eval.found = IF Cardinality(Here) < Slots THEN Cardinality(Here) ELSE Slots
         /\ 0 \in Here => eval.found > 0
<1>1. /\ eval.n = Count /\ Ranked /\ Scanning /\ Here \in SUBSET Places
      /\ eval.found \in Nat /\ eval.found <= Slots
  BY EvalDone, EvalFields, InRangePlaces DEF Inv, Planned, TypeOK, Here
<1>2. Rank(Count, Here) = Cardinality(Here) /\ Rank(Count, Here) \in Nat
  BY <1>1, RankAll, RankType
<1>3. ASSUME NEW n \in Here PROVE Rank(n, Here) + 1 <= Rank(Count, Here)
  <2>1. n \in Places /\ n + 1 \in Nat /\ n + 1 <= Count
    BY <1>1, Sizes DEF Places
  <2> QED
    BY <1>1, <2>1, RankStep, RankMonotone, Sizes
<1>4. eval.found = IF Cardinality(Here) < Slots THEN Cardinality(Here) ELSE Slots
  <2>1. CASE eval.found < Slots
    BY <1>1, <1>2, <2>1, Sizes DEF Ranked
  <2>2. CASE eval.found = Slots
    <3>1. PICK last \in Here : Rank(last, Here) = Slots - 1
      BY <1>1, <2>2 DEF Scanning
    <3> QED
      BY <1>2, <1>3, <2>2, <3>1, Sizes
  <2> QED
    BY <1>1, <2>1, <2>2, Sizes
<1>5. 0 \in Here => eval.found > 0
  <2>1. 0 \in Here => 1 <= Cardinality(Here)
    BY <1>1, <1>2, <1>3, RankZero
  <2> QED
    BY <1>2, <1>4, <2>1, Sizes
<1> QED
  BY <1>4, <1>5

\* The slots hold the list that was wanted.
LEMMA SlotsHoldList ==
  ASSUME Inv, plan # None, beam.dot >= LastEval
  PROVE  /\ DOMAIN plan.list = 0 .. eval.found - 1
         /\ \A i \in 0 .. eval.found - 1 :
              /\ plan.list[i].entry = FetchedSlot(i, beam.line)
              /\ plan.list[i].sprite \in Here /\ Rank(plan.list[i].sprite, Here) = i
<1>1. plan.list = Wanted(beam.line) /\ Kept /\ Here \in SUBSET Places
  BY InRangePlaces DEF Inv, Planned, Undisturbed, Here
<1>2. eval.found = IF Cardinality(Here) < Slots THEN Cardinality(Here) ELSE Slots
  BY FoundAll
<1> DEFINE nth(i) == CHOOSE n \in Here : Rank(n, Here) = i
<1>3. plan.list = [i \in 0 .. eval.found - 1 |-> [sprite |-> nth(i), entry |-> OfSprite(nth(i), beam.line)]]
  BY <1>1, <1>2 DEF Wanted, Here
<1>4. ASSUME NEW i \in 0 .. eval.found - 1
      PROVE  /\ plan.list[i].entry = FetchedSlot(i, beam.line)
             /\ plan.list[i].sprite \in Here /\ Rank(plan.list[i].sprite, Here) = i
  <2>1. PICK p \in Here : Rank(p, Here) = i /\ Holds(i, p)
    BY <1>1 DEF Kept
  <2>2. \A n \in Here : Rank(n, Here) = i => n = p
    BY <1>1, <2>1, RankInjective
  <2>3. nth(i) = p
    BY <2>1, <2>2
  <2>4. /\ secondary[4 * i] = oam[4 * p] /\ secondary[4 * i + 1] = oam[4 * p + 1]
        /\ secondary[4 * i + 2] = oam[4 * p + 2] /\ secondary[4 * i + 3] = oam[4 * p + 3]
    <3>1. p \in Nat /\ i \in Nat
      BY <1>1, EvalFields, Sizes DEF Places, Inv, TypeOK
    <3>2. secondary[4 * i + 0] = oam[4 * p + 0]
      BY <2>1 DEF Holds
    <3>3. 4 * i + 0 = 4 * i /\ 4 * p + 0 = 4 * p
      BY <3>1
    <3> QED
      BY <2>1, <3>2, <3>3 DEF Holds
  <2>5. OfSprite(p, beam.line) = FetchedSlot(i, beam.line)
    BY <2>4 DEF OfSprite, FetchedSlot
  <2>6. plan.list[i].sprite = p /\ plan.list[i].entry = OfSprite(p, beam.line)
    <3> HIDE DEF nth
    <3> QED
      BY <1>3, <2>3
  <2> QED
    BY <2>1, <2>5, <2>6
<1>5. DOMAIN plan.list = 0 .. eval.found - 1
  BY <1>3
<1> QED
  BY <1>4, <1>5

LEMMA EntryIsThere ==
  ASSUME NEW y, NEW tile, NEW attr, NEW x, NEW line PROVE Entry(y, tile, attr, x, line) # None
<1>1. DOMAIN Entry(y, tile, attr, x, line) = {"pattern", "x", "behind"} /\ DOMAIN None = {"none"}
  BY DEF Entry, None
<1> QED
  BY <1>1

\* So does the buffer of the next line, when the last slot is fetched.
LEMMA BufferHoldsList ==
  ASSUME Inv, plan # None, beam.dot = SwapDot - 1
  PROVE  /\ DOMAIN plan.list = 0 .. next.count - 1
         /\ \A i \in 0 .. next.count - 1 : /\ plan.list[i].entry = next.buf[i] /\ next.buf[i] # None
                                           /\ plan.list[i].sprite = 0 <=> i = next.zero
         /\ next.zero # NoSlot => next.zero < next.count /\ OnLine(oam[0], beam.line)
<1>1. beam.dot >= LastEval /\ beam.dot = LastEval + Slots
  BY Sizes DEF SwapDot, LastEval
<1>2. /\ Buffered /\ eval.found \in Nat /\ eval.found <= Slots
      /\ eval.n = Count /\ Here \in SUBSET Places
  BY <1>1, EvalDone, EvalFields, InRangePlaces DEF Inv, Planned, TypeOK, Here
<1>3. next.count = eval.found /\ next.zero = IF 0 \in Here THEN 0 ELSE NoSlot
  BY <1>1, <1>2, Sizes DEF Buffered
<1>4. DOMAIN plan.list = 0 .. next.count - 1
  BY <1>1, <1>3, SlotsHoldList
<1>5. ASSUME NEW i \in 0 .. next.count - 1
      PROVE  /\ plan.list[i].entry = next.buf[i] /\ next.buf[i] # None
             /\ plan.list[i].sprite = 0 <=> i = next.zero
  <2>1. LastEval + 1 + i <= beam.dot /\ i \in 0 .. eval.found - 1
    BY <1>1, <1>2, <1>3, Sizes DEF LastEval
  <2>2. next.buf[i] = FetchedSlot(i, beam.line)
    BY <1>2, <2>1 DEF Buffered
  <2>3. PICK p \in Here : p = plan.list[i].sprite /\ Rank(p, Here) = i
    BY <1>1, <2>1, SlotsHoldList
  <2>4. plan.list[i].entry = next.buf[i] /\ next.buf[i] # None
    BY <1>1, <2>1, <2>2, SlotsHoldList, EntryIsThere DEF FetchedSlot
  <2>5. CASE 0 \in Here
    <3>1. p = 0 => i = 0
      BY <1>2, <2>3, RankZero
    <3>2. i = 0 => p = 0
      BY <1>2, <2>3, <2>5, RankZero, RankInjective
    <3> QED
      BY <1>3, <2>3, <2>4, <2>5, <3>1, <3>2
  <2>6. CASE 0 \notin Here
    <3>1. p # 0 /\ i # NoSlot
      BY <1>2, <2>1, <2>3, <2>6, Sizes DEF NoSlot
    <3> QED
      BY <1>3, <2>3, <2>4, <2>6, <3>1
  <2> QED
    BY <2>5, <2>6
<1>6. next.zero # NoSlot => next.zero < next.count /\ OnLine(oam[0], beam.line)
  <2> SUFFICES ASSUME next.zero # NoSlot PROVE next.zero < next.count /\ OnLine(oam[0], beam.line)
    OBVIOUS
  <2>1. 0 \in Here /\ next.zero = 0
    BY <1>3
  <2>2. eval.found > 0
    BY <1>1, <2>1, FoundAll
  <2>3. OnLine(oam[4 * 0], beam.line)
    BY <2>1 DEF Here, InRange
  <2> QED
    BY <1>2, <1>3, <2>1, <2>2, <2>3
<1> QED
  BY <1>4, <1>5, <1>6

-----------------------------------------------------------------------------
(* What is shown. *)

\* Where nothing is swapped, what is due on a line is due on every dot of it.
LEMMA ShowsOn ==
  ASSUME Inv, Dot, due' = due, shown' = shown, beam'.line < Visible => beam'.dot # SwapDot
  PROVE  Shows'
<1>1. CASE due' = None
  BY <1>1 DEF Shows
<1>2. CASE due' # None
  <2>1. Listed /\ ZeroOnLine
    BY <1>2 DEF Inv, Shows
  <2>2. Listed'
    BY <2>1 DEF Listed
  <2>3. \A y, line : OnLine(y, line)' = OnLine(y, line)
    BY DotFacts DEF OnLine
  <2>4. ZeroOnLine'
    <3> SUFFICES ASSUME beam'.line < Visible, shown'.zero # NoSlot, beam'.line > 0
                 PROVE  OnLine(due.y, beam'.line - 1)
      BY <2>3 DEF ZeroOnLine
    <3>1. /\ beam.line \in 0 .. PreRender /\ beam.dot \in 0 .. SwapDot
          /\ beam.dot < SwapDot => beam'.line = beam.line
          /\ beam.dot = SwapDot => beam'.line = IF beam.line = PreRender THEN 0 ELSE beam.line + 1
      BY DotFacts
    <3>2. CASE beam.dot < SwapDot
      <4>1. beam.line < Visible /\ beam.line > 0 /\ beam'.line = beam.line /\ beam.dot # SwapDot
        BY <3>1, <3>2, Sizes DEF SwapDot
      <4> QED
        BY <2>1, <4>1 DEF ZeroOnLine
    <3>3. CASE beam.dot = SwapDot
      <4>1. beam.line < Visible /\ beam'.line - 1 = beam.line
        BY <3>1, <3>3, Sizes DEF PreRender
      <4> QED
        BY <2>1, <3>3, <4>1 DEF ZeroOnLine
    <3> QED
      BY <3>1, <3>2, <3>3, Sizes DEF SwapDot
  <2> QED
    BY <2>2, <2>4 DEF Shows
<1> QED
  BY <1>1, <1>2

LEMMA ShowsSwap == ASSUME Inv, Dot, Live, beam'.dot = SwapDot, SwapBuffers PROVE Shows'
<1>1. CASE due' = None
  BY <1>1 DEF Shows
<1>2. CASE due' # None
  <2>1. /\ ready /\ plan # None /\ shown' = next
        /\ due'.list = plan.list /\ due'.y = oam[0]
    BY <1>2 DEF SwapBuffers, Swapped
  <2>2. beam.dot = SwapDot - 1 /\ beam'.line = beam.line /\ ctrl' = ctrl
    BY DotFacts, Sizes DEF SwapDot
  <2>3. /\ DOMAIN plan.list = 0 .. next.count - 1
        /\ \A i \in 0 .. next.count - 1 : /\ plan.list[i].entry = next.buf[i] /\ next.buf[i] # None
                                          /\ plan.list[i].sprite = 0 <=> i = next.zero
        /\ next.zero # NoSlot => next.zero < next.count /\ OnLine(oam[0], beam.line)
    BY <2>1, <2>2, BufferHoldsList
  <2>4. Listed'
    BY <2>1, <2>3 DEF Listed
  <2>5. ZeroOnLine'
    <3>1. OnLine(due.y, beam.line)' = OnLine(oam[0], beam.line)
      BY <2>1, <2>2 DEF OnLine
    <3> QED
      BY <2>1, <2>3, <3>1 DEF ZeroOnLine
  <2> QED
    BY <2>4, <2>5 DEF Shows
<1> QED
  BY <1>1, <1>2

LEMMA ShowsDot == ASSUME Inv, Dot PROVE Shows'
<1>1. CASE Live /\ beam'.dot = SwapDot /\ SwapBuffers
  BY <1>1, ShowsSwap
<1>2. CASE due' = due /\ shown' = shown /\ beam'.dot # SwapDot
  BY <1>2, ShowsOn
<1>3. CASE ~Live /\ NoSprites
  <2>1. CASE due' = None
    BY <2>1 DEF Shows
  <2>2. CASE due' # None
    <3>1. due' = due /\ shown' = shown /\ ~(beam'.dot = SwapDot /\ beam'.line < Visible)
      BY <1>3, <2>2 DEF NoSprites
    <3> QED
      BY <3>1, ShowsOn
  <2> QED
    BY <2>1, <2>2
<1>4. \/ Live /\ beam'.dot = 0 /\ StartLine
      \/ Live /\ beam'.dot \in 1 .. Slots /\ ClearSlot
      \/ Live /\ beam'.dot \in Slots + 1 .. LastEval /\ EvalDot
      \/ Live /\ beam'.dot \in LastEval + 1 .. SwapDot - 1 /\ FetchDot
      => due' = due /\ shown' = shown /\ beam'.dot # SwapDot
  BY Sizes DEF SwapDot, LastEval, StartLine, ClearSlot, EvalDot, FetchDot
<1> QED
  BY <1>1, <1>2, <1>3, <1>4, DotCases

LEMMA DotKeeps == ASSUME Inv, Dot PROVE Inv'
BY TypeDot, OamMoves, PlannedDot, ShowsDot, FlagFacts DEF Inv

-----------------------------------------------------------------------------
(* The theorems. *)

LEMMA InitInv == Init => Inv
<1> SUFFICES ASSUME Init PROVE Inv
  OBVIOUS
<1>1. Homed /\ Planned /\ Shows /\ Lowered
  BY DEF Init, Homed, OamIsPage, Planned, Shows, Lowered
<1> QED
  BY <1>1, TypeInit DEF Inv

LEMMA StutterKeeps == ASSUME Inv, UNCHANGED vars PROVE Inv'
<1>1. TypeOK' /\ Homed' /\ Lowered'
  BY DEF vars, Inv, TypeOK, Homed, OamIsPage, Lowered
<1>2. plan # None => Renders(mask')
  BY PlannedRenders DEF vars
<1>3. Planned' /\ Shows'
  BY <1>2, PlannedKept, ShowsKept DEF vars, Inv
<1> QED
  BY <1>1, <1>3 DEF Inv

LEMMA StepKeeps == Inv /\ [Next]_vars => Inv'
<1> SUFFICES ASSUME Inv, [Next]_vars PROVE Inv'
  OBVIOUS
<1>1. CASE Dot
  BY <1>1, DotKeeps
<1>2. CASE Write
  BY <1>2, MaskKeeps, ControlKeeps, AddressKeeps, TransferKeeps, OamKeeps DEF Write
<1>3. CASE Reset
  BY <1>3, ResetKeeps
<1>4. CASE UNCHANGED vars
  BY <1>4, StutterKeeps
<1> QED
  BY <1>1, <1>2, <1>3, <1>4 DEF Next

LEMMA Invariance == Spec => []Inv
BY InitInv, StepKeeps, PTL DEF Spec

\* Every variable has its type: the evaluation never leaves OAM or secondary OAM, and the counts
\* stay within the slots (evaluate_sprites, finalize_evaluation).
THEOREM TypeCorrectness == Spec => []TypeOK
<1>1. Inv => TypeOK
  BY DEF Inv
<1> QED
  BY <1>1, Invariance, PTL

\* A page brought in with OAMADDR at 0 is what OAM holds until the program writes $2004 or leaves
\* OAMADDR elsewhere (execute_oam_dma, the OAMADDR reset and the corruption in Ppu::tick).
THEOREM PageStays == Spec => []OamIsPage
<1>1. Inv => OamIsPage
  BY DEF Inv, Homed
<1> QED
  BY <1>1, Invariance, PTL

LEMMA OverflowNow == Inv => OverflowAsScanned
<1> SUFFICES ASSUME Inv, FetchAt(beam.dot), plan # None
             PROVE  eval.n = Count /\ flags.overflow = plan.overflow
  BY DEF OverflowAsScanned
<1>1. beam.dot >= LastEval
  BY Sizes DEF FetchAt, LastEval, SwapDot
<1>2. eval.n = Count /\ eval.found \in Nat /\ eval.found <= Slots
  BY <1>1, EvalDone, EvalFields DEF Inv, TypeOK
<1>3. Ranked /\ Scanning /\ plan.overflow \in BOOLEAN /\ flags.overflow \in BOOLEAN
  BY DEF Inv, Planned, Undisturbed, TypeOK
<1>4. CASE eval.found < Slots
  <2>1. ~(Cardinality(Here) >= Slots)
    <3>1. eval.found = IF Cardinality(Here) < Slots THEN Cardinality(Here) ELSE Slots
      BY <1>1, FoundAll
    <3>2. Cardinality(Here) \in Nat
      BY InRangePlaces, RankAll, RankType DEF Here
    <3> QED
      BY <1>2, <1>4, <3>1, <3>2, Sizes
  <2>2. ~ScanFinds(beam.line)
    BY <2>1 DEF ScanFinds, Here
  <2> QED
    BY <1>2, <1>3, <1>4, <2>2 DEF Ranked
<1>5. CASE eval.found = Slots
  <2>1. PICK last \in Here : plan.overflow <=> flags.overflow \/ Finds(last, eval.n)
    BY <1>3, <1>5 DEF Scanning
  <2>2. Count .. Count - 1 = {}
    BY Sizes
  <2>3. ~Finds(last, eval.n)
    BY <1>2, <2>2 DEF Finds
  <2> QED
    BY <1>2, <1>3, <2>1, <2>3
<1> QED
  BY <1>2, <1>4, <1>5, Sizes

\* For any number of sprites and slots and any dots that the assumption allows, the evaluation of
\* an undisturbed line reaches the last sprite, and the overflow flag is what the scan behind the
\* last slot finds (evaluate_sprites).
THEOREM OverflowIsScanned == Spec => []OverflowAsScanned
BY OverflowNow, Invariance, PTL

LEMMA Least == ASSUME NEW T \in SUBSET Nat, T # {} PROVE \E i \in T : \A j \in T : i <= j
<1> DEFINE R == {ss \in Nat \X Nat : ss[1] < ss[2]}
<1>1. IsWellFoundedOn(R, Nat)
  BY NatLessThanWellFounded DEF OpToRel
<1>2. \E i \in T : \A j \in T : ~(<<j, i>> \in R)
  <2> HIDE DEF R
  <2> QED
    BY <1>1, WFMin
<1>3. \A i, j \in T : ~(<<j, i>> \in R) => i <= j
  OBVIOUS
<1> QED
  BY <1>2, <1>3

LEMMA ShownNow == Inv => SpritesAsEvaluated
<1> DEFINE c == Column(beam.dot)
           here == {i \in DOMAIN due.list : /\ due.list[i].entry.x = c
                                            /\ due.list[i].entry.pattern \in Opaque}
           hits == {i \in 0 .. shown.count - 1 : shown.buf[i].x = c /\ shown.buf[i].pattern \in Opaque}
           slot == CHOOSE i \in hits : \A j \in hits : i <= j
           first == due.list[CHOOSE i \in here : \A j \in here : i <= j].entry
           ground == [layer |-> IF mask.bg /\ c \in Background THEN "background" ELSE "backdrop"]
<1> SUFFICES ASSUME Inv, Renders(mask), due # None
             PROVE  IF (c = 0 /\ ~mask.spLeft) \/ here = {} THEN Painted(c) = ground
                    ELSE Painted(c) = IF first.behind /\ mask.bg /\ c \in Background THEN ground ELSE first
  BY DEF SpritesAsEvaluated
<1>1. /\ DOMAIN due.list = 0 .. shown.count - 1
      /\ \A i \in 0 .. shown.count - 1 : due.list[i].entry = shown.buf[i]
  BY DEF Inv, Shows, Listed
<1>2. here = hits
  <2>1. here = {i \in 0 .. shown.count - 1 : /\ due.list[i].entry.x = c
                                             /\ due.list[i].entry.pattern \in Opaque}
    BY <1>1
  <2>2. \A i \in 0 .. shown.count - 1 :
          (due.list[i].entry.x = c /\ due.list[i].entry.pattern \in Opaque)
            <=> (shown.buf[i].x = c /\ shown.buf[i].pattern \in Opaque)
    BY <1>1
  <2>3. \A i : i \in here <=> i \in hits
    <3> HIDE DEF c
    <3> QED
      BY <2>1, <2>2, Zenon
  <2> QED
    <3> HIDE DEF here, hits
    <3> QED
      BY <2>3, Zenon
<1>3. shown.count \in Nat /\ shown.count <= Slots
  <2> HIDE DEF c, here, hits, slot, first, ground
  <2>1. Buffers(shown)
    BY DEF Inv, TypeOK
  <2>2. shown.count \in 0 .. Slots
    BY <2>1, BufferFields
  <2> QED
    BY <2>2, Sizes
<1>4. Ground(c) = ground
  BY DEF Ground, BackgroundAt, Backdrop
<1>5. CASE (c = 0 /\ ~mask.spLeft) \/ hits = {}
  <2>1. SpriteAt(c) = NoSlot
    BY <1>5 DEF SpriteAt
  <2>2. Painted(c) = Ground(c)
    BY <2>1 DEF Painted, Drawn
  <2> QED
    <3> HIDE DEF here, hits, ground, first, c
    <3> QED
      BY <1>2, <1>4, <1>5, <2>2
<1>6. CASE ~((c = 0 /\ ~mask.spLeft) \/ hits = {})
  <2>1. SpriteAt(c) = slot
    BY <1>6 DEF SpriteAt
  <2>2. slot \in hits
    <3>1. hits \in SUBSET Nat /\ hits # {}
      BY <1>3, <1>6
    <3>2. \E i \in hits : \A j \in hits : i <= j
      <4> HIDE DEF hits
      <4> QED
        BY <3>1, Least
    <3> HIDE DEF hits
    <3> QED
      BY <3>2
  <2>3. slot \in 0 .. shown.count - 1
    BY <2>2
  <2>4. slot # NoSlot
    <3> HIDE DEF slot
    <3> QED
      BY <1>3, <2>3, Sizes DEF NoSlot
  <2>5. first = shown.buf[slot]
    <3>1. first = due.list[slot].entry
      BY <1>2
    <3> HIDE DEF slot, first
    <3> QED
      BY <1>1, <2>3, <3>1
  <2>6. Drawn(c) = IF BackgroundAt(c) /\ first.behind THEN None ELSE first
    <3> HIDE DEF slot, first, c
    <3> QED
      BY <2>1, <2>4, <2>5 DEF Drawn
  <2>7. first # None
    <3> HIDE DEF slot, first
    <3> QED
      BY <2>3, <2>5 DEF Inv, Shows, Listed
  <2>8. Painted(c) = IF BackgroundAt(c) /\ first.behind THEN ground ELSE first
    <3> HIDE DEF ground, first, c
    <3> QED
      BY <1>4, <2>6, <2>7 DEF Painted
  <2> QED
    <3> HIDE DEF here, hits, ground, first, c
    <3> QED
      BY <1>2, <1>6, <2>8 DEF BackgroundAt
<1> QED
  BY <1>5, <1>6

\* What the test of a dot asks for is that sprite 0 is shown there.
LEMMA HitNow ==
  ASSUME Inv, Dot, beam'.line < Visible, DrawAt(beam'.dot), Renders(mask), due # None,
         beam'.line = 0 \/ due.y = oam[0]
  PROVE  LET c == Column(beam'.dot)
         IN  flags'.hit <=>
               \/ flags.hit
               \/ /\ mask.bg /\ mask.sp /\ (c = 0 => mask.bgLeft /\ mask.spLeft)
                  /\ c \in Background /\ c # LastColumn /\ beam'.line > 0
                  /\ \E i \in DOMAIN due.list : /\ due.list[i].sprite = 0 /\ due.list[i].entry.x = c
                                               /\ due.list[i].entry.pattern \in Opaque
<1> DEFINE c == Column(beam'.dot)
           zero == \E i \in DOMAIN due.list : /\ due.list[i].sprite = 0 /\ due.list[i].entry.x = c
                                              /\ due.list[i].entry.pattern \in Opaque
           clear == mask.bg /\ mask.sp /\ (c = 0 => mask.bgLeft /\ mask.spLeft) /\ c \in Background
           shows == clear /\ c # LastColumn /\ beam'.line > 0 /\ zero
<1>0. /\ Listed /\ ZeroOnLine /\ oam \in [OamBytes -> Bytes] /\ flags.hit \in BOOLEAN
      /\ Buffers(shown) /\ ctrl.height \in Nat
  BY Sizes DEF Inv, Shows, TypeOK
<1>1. shown.count \in Nat /\ shown.count <= Slots /\ shown.zero \in Nat
  <2>1. shown.count \in 0 .. Slots /\ shown.zero \in 0 .. Slots
    BY <1>0, BufferFields
  <2> QED
    BY <2>1, Sizes
<1>2. oam[0] \in Nat
  BY <1>0, Sizes DEF OamBytes, Bytes
<1>3. /\ beam.line \in Nat /\ beam'.line \in Nat /\ beam'.dot >= 1
      /\ beam'.line = beam.line /\ beam.dot # SwapDot
  <2>1. beam'.dot >= 1
    BY Sizes DEF DrawAt, ClearAt, EvalAt
  <2>2. /\ beam.line \in 0 .. PreRender /\ beam.dot \in 0 .. SwapDot /\ beam'.line \in 0 .. PreRender
        /\ beam.dot < SwapDot => beam'.dot = beam.dot + 1 /\ beam'.line = beam.line
        /\ beam.dot = SwapDot => beam'.dot = 0
    BY DotFacts
  <2> QED
    BY <2>1, <2>2, Sizes DEF SwapDot, PreRender
<1>4. flags'.hit <=> flags.hit \/ Hits(beam')
  <2>1. flags' = FlagsAt(beam') /\ beam'.line # PreRender
    BY Sizes DEF Dot, PreRender
  <2> QED
    BY <1>0, <2>1 DEF FlagsAt
<1>5. ZeroAt(c) <=> c # LastColumn /\ zero
  <2>1. shown.zero # NoSlot => shown.zero \in 0 .. shown.count - 1
    BY <1>0, <1>1, Sizes DEF Listed, NoSlot
  <2>2. ASSUME NEW i \in DOMAIN due.list
        PROVE  /\ i \in 0 .. shown.count - 1 /\ due.list[i].entry = shown.buf[i]
               /\ due.list[i].sprite = 0 <=> i = shown.zero
    BY <1>0 DEF Listed
  <2>3. \A i \in 0 .. shown.count - 1 : i # NoSlot
    BY <1>1, Sizes DEF NoSlot
  <2>4. zero <=> /\ shown.zero # NoSlot /\ shown.buf[shown.zero].x = c
                 /\ shown.buf[shown.zero].pattern \in Opaque
    <3> HIDE DEF c
    <3>1. CASE shown.zero = NoSlot
      BY <2>2, <2>3, <3>1
    <3>2. CASE shown.zero # NoSlot
      <4>1. shown.zero \in DOMAIN due.list
        BY <1>0, <2>1, <3>2 DEF Listed
      <4> QED
        BY <2>2, <3>2, <4>1
    <3> QED
      BY <3>1, <3>2
  <2> HIDE DEF c, zero
  <2> QED
    BY <2>4 DEF ZeroAt
<1>6. beam'.line = 0 => (flags'.hit <=> flags.hit \/ shows)
  <2> SUFFICES ASSUME beam'.line = 0 PROVE flags'.hit <=> flags.hit \/ shows
    OBVIOUS
  <2>1. ~Hits(beam')
    BY <1>2 DEF Hits
  <2>2. ~shows
    BY Sizes
  <2>3. flags'.hit <=> flags.hit
    BY <1>4, <2>1
  <2> HIDE DEF shows
  <2> QED
    BY <2>2, <2>3
<1>7. beam'.line > 0 => (flags'.hit <=> flags.hit \/ shows)
  <2> SUFFICES ASSUME beam'.line > 0 PROVE flags'.hit <=> flags.hit \/ shows
    OBVIOUS
  <2>1. due.y = oam[0]
    OBVIOUS
  <2>2. ASSUME ZeroAt(c)
        PROVE  /\ oam[0] < Visible - 1 /\ beam'.line >= oam[0] + 1
               /\ beam'.line < oam[0] + 1 + ctrl.height
    <3>1. shown.zero # NoSlot
      BY <2>2 DEF ZeroAt
    <3>2. OnLine(oam[0], beam'.line - 1)
      BY <1>0, <1>3, <2>1, <3>1 DEF ZeroOnLine
    <3> QED
      BY <1>0, <1>2, <1>3, <3>2, Sizes DEF OnLine
  <2>3. Hits(beam') <=> clear /\ ZeroAt(c)
    <3>1. Hits(beam') <=> /\ mask.bg /\ mask.sp /\ oam[0] < Visible - 1
                          /\ beam'.line >= oam[0] + 1 /\ beam'.line < oam[0] + 1 + ctrl.height
                          /\ (c = 0 => mask.bgLeft /\ mask.spLeft) /\ ZeroAt(c) /\ c \in Background
      BY DEF Hits
    <3> HIDE DEF c
    <3> QED
      BY <2>2, <3>1
  <2> HIDE DEF c, zero, clear
  <2> QED
    BY <1>4, <1>5, <2>3 DEF shows
<1>8. flags'.hit <=> flags.hit \/ shows
  <2> HIDE DEF shows
  <2> QED
    BY <1>3, <1>6, <1>7
<1> QED
  BY <1>8, Zenon

LEMMA HitSteps == Inv /\ [Next]_vars => [HitRule]_vars
<1> SUFFICES ASSUME Inv, Next PROVE HitRule
  BY DEF HitRule
<1> SUFFICES ASSUME beam'.line < Visible, DrawAt(beam'.dot), beam' = Moved(beam),
                    Renders(mask), due # None, beam'.line = 0 \/ due.y = oam[0]
             PROVE  HitRule
  BY DEF HitRule
<1>1. CASE Dot
  BY <1>1, HitNow DEF HitRule
<1>2. CASE Write
  <2>1. beam' = beam
    BY <1>2 DEF Write, WriteMask, WriteControl, WriteOamAddress, Transfer, WriteOam
  <2>2. beam.dot \in 0 .. SwapDot
    BY DEF Inv, TypeOK
  <2>3. Moved(beam).dot # beam.dot
    <3>1. beam = [line |-> beam.line, dot |-> beam.dot]
      BY DEF Inv, TypeOK
    <3> QED
      BY <2>2, <3>1, Sizes DEF Moved, SwapDot
  <2> QED
    BY <2>1, <2>3
<1>3. CASE Reset
  <2>1. beam'.line = 0 /\ beam'.dot = 1 /\ ~flags'.hit
    BY <1>3 DEF Reset
  <2>2. /\ beam = [line |-> beam.line, dot |-> beam.dot]
        /\ beam.line \in 0 .. PreRender /\ beam.dot \in 0 .. SwapDot
    BY DEF Inv, TypeOK
  <2>3. beam.line = 0 /\ beam.dot = 0
    <3>1. beam.dot < SwapDot
      BY <2>1, <2>2, Sizes DEF Moved
    <3>2. Moved(beam) = [line |-> beam.line, dot |-> beam.dot + 1]
      BY <2>2, <3>1 DEF Moved
    <3> QED
      BY <2>1, <2>2, <3>2, Sizes DEF SwapDot
  <2>4. ~flags.hit
    BY <2>3 DEF Inv, Lowered
  <2> QED
    BY <2>1, <2>4 DEF HitRule
<1> QED
  BY <1>1, <1>2, <1>3 DEF Next

\* For any numbers of sprites, slots and lines, the hit flag is raised on the dots where sprite 0 is
\* shown over the background, and on no other (the sprite 0 test of Ppu::tick).
THEOREM HitWhereShown == Spec => HitAsShown
<1>1. Inv /\ Inv' /\ [Next]_vars => [HitRule]_vars
  BY HitSteps
<1> QED
  BY <1>1, Invariance, PTL DEF Spec, HitAsShown

\* Whatever the program writes and transfers, a line that was evaluated, fetched and swapped
\* undisturbed shows the first Slots sprites in range in the order of OAM, for any number of them
\* (evaluate_sprites, fetch_sprite_pattern, swap_buffers, get_pixel).
THEOREM ShownAsEvaluated == Spec => []SpritesAsEvaluated
BY ShownNow, Invariance, PTL
=============================================================================

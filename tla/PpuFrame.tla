------------------------------ MODULE PpuFrame -------------------------------
(***************************************************************************)
(* The PPU's frame, dot by dot: the position of the beam, the odd frame    *)
(* that is one dot short, the flags a program reads in $2002, the NMI      *)
(* latch and the frame-complete flag.  The CPU makes one access a cycle,   *)
(* and a CPU cycle is at least three dots; where its cycles fall on the    *)
(* dots is left open.                                                      *)
(***************************************************************************)
EXTENDS Naturals

CONSTANTS
  NtscLines, PalLines, \* scanlines of a frame
  Dots,                \* dots of a scanline
  Visible,             \* visible scanlines
  VBlankLine           \* the line that VBlank starts on, at dot 1

CycleDots == 3 \* dots of the shortest CPU cycle

ASSUME PpuAssumption ==
  /\ NtscLines \in Nat /\ PalLines \in Nat /\ Dots \in Nat /\ Visible \in Nat /\ VBlankLine \in Nat
  /\ 0 < Visible /\ Visible < VBlankLine /\ 4 < Dots
  /\ VBlankLine + 2 < NtscLines /\ NtscLines < PalLines

VARIABLES
  tv,      \* the TV system, fixed when the machine is built
  beam,    \* scanline, pixel and the parity of frame_count
  status,  \* the PPU's Status, without the pending sprite hit, which nothing sets
  reg,     \* nmi and render: the bits of $2000 and $2001 that the frame depends on
  gap,     \* dots since the CPU's last access, up to CycleDots
  age,     \* history: dots since VBlank started, a reset counting as the top of a frame
  last,    \* history: dots of the last full frame, 0 after a reset
  seen,    \* history: reads that returned the flag since it was set, but in the dot that set it
  polled   \* history: NMIs polled since VBlank started

vars == <<tv, beam, status, reg, gap, age, last, seen, polled>>

Lines == IF tv = "ntsc" THEN NtscLines ELSE PalLines

PreRender == Lines - 1

FullFrame == Lines * Dots

-----------------------------------------------------------------------------
\* The odd-frame skip of Timing::tick.
Skips_Always(b) ==
  tv = "ntsc" /\ reg.render /\ b.scanline = NtscLines - 1 /\ b.pixel = Dots - 2
Skips(b) ==
  tv = "ntsc" /\ b.odd /\ reg.render /\ b.scanline = NtscLines - 1 /\ b.pixel = Dots - 2

\* Timing::tick
Moved(b) ==
  LET newLine  == Skips(b) \/ b.pixel = Dots - 1
      newFrame == newLine /\ b.scanline = PreRender
  IN  [pixel    |-> IF newLine THEN 0 ELSE b.pixel + 1,
       scanline |-> IF newFrame THEN 0 ELSE IF newLine THEN b.scanline + 1 ELSE b.scanline,
       odd      |-> b.odd # newFrame]

StartsVBlank(b) == b.scanline = VBlankLine /\ b.pixel = 1

EndsVBlank(b) == b.scanline = PreRender - 1 /\ b.pixel = Dots - 1

ClearsSprites(b) == b.scanline = PreRender /\ b.pixel = 0

\* enter_vblank: the frame is complete whether or not NMIs are enabled.
Entered_FrameWithNmi(s) ==
  [s EXCEPT !.vblank = TRUE, !.start = TRUE, !.frame = @ \/ reg.nmi, !.nmi = @ \/ reg.nmi]
Entered(s) ==
  [s EXCEPT !.vblank = TRUE, !.start = TRUE, !.frame = TRUE, !.nmi = @ \/ reg.nmi]

\* exit_vblank
Exited_NmiKept(s) == [s EXCEPT !.vblank = FALSE]
Exited(s) == [s EXCEPT !.vblank = FALSE, !.nmi = FALSE]

\* The flags that Ppu::tick leaves on dot b, but for what rendering finds.
StatusAt(b) ==
  LET s == [status EXCEPT !.start = FALSE]
  IN  IF StartsVBlank(b) THEN Entered(s)
      ELSE IF EndsVBlank(b) THEN Exited(s)
      ELSE IF ClearsSprites(b) THEN [s EXCEPT !.hit = FALSE, !.overflow = FALSE]
      ELSE s

\* read_status: a read in the dot that VBlank starts does not clear the flag.
Read(s) == IF s.start THEN s ELSE [s EXCEPT !.vblank = FALSE]

-----------------------------------------------------------------------------
\* What Ppu::reset leaves, and the dot that Nes::new and Nes::reset run after it.
FreshBeam == [pixel |-> 1, scanline |-> 0, odd |-> FALSE]

FreshStatus ==
  [vblank |-> FALSE, start |-> FALSE, nmi |-> FALSE, frame |-> FALSE, hit |-> FALSE,
   overflow |-> FALSE]

FreshReg == [nmi |-> FALSE, render |-> FALSE]

FreshAge == (Lines - VBlankLine) * Dots

Init ==
  /\ tv \in {"ntsc", "pal"}
  /\ beam = FreshBeam /\ status = FreshStatus /\ reg = FreshReg
  /\ gap = 0 /\ last = 0 /\ seen = 0 /\ polled = 0
  /\ age = FreshAge

\* Ppu::tick.  A visible dot that renders may hit sprite 0 or find too many sprites.
Dot ==
  LET b == Moved(beam)
      renders == b.scanline < Visible /\ b.pixel > 0 /\ reg.render
  IN  /\ beam' = b
      /\ \E hit, overflow \in {FALSE, renders} :
           status' = [StatusAt(b) EXCEPT !.hit = @ \/ hit, !.overflow = @ \/ overflow]
      /\ gap' = IF gap = CycleDots THEN gap ELSE gap + 1
      /\ IF StartsVBlank(b)
           THEN age' = 0 /\ last' = age + 1 /\ seen' = 0 /\ polled' = 0
           ELSE age' = age + 1 /\ UNCHANGED <<last, seen, polled>>
      /\ UNCHANGED <<tv, reg>>

\* An access of the CPU to a register.
Access == gap = CycleDots /\ gap' = 0

\* write_control and write_mask touch no flag: enabling NMIs in VBlank raises none.
WriteControl(nmi) ==
  /\ Access
  /\ reg' = [reg EXCEPT !.nmi = nmi]
  /\ UNCHANGED <<tv, beam, status, age, last, seen, polled>>

WriteMask(render) ==
  /\ Access
  /\ reg' = [reg EXCEPT !.render = render]
  /\ UNCHANGED <<tv, beam, status, age, last, seen, polled>>

\* get_status
ReadStatus ==
  /\ Access
  /\ status' = Read(status)
  /\ seen' = IF status.vblank /\ ~status.start THEN seen + 1 ELSE seen
  /\ UNCHANGED <<tv, beam, reg, age, last, polled>>

\* poll_nmi, between the dots of a CPU cycle and its access
PollNmi ==
  /\ status' = [status EXCEPT !.nmi = FALSE]
  /\ polled' = IF status.nmi THEN polled + 1 ELSE polled
  /\ UNCHANGED <<tv, beam, reg, gap, age, last, seen>>

\* poll_frame_complete, at the end of an instruction
PollFrame ==
  /\ status' = [status EXCEPT !.frame = FALSE]
  /\ UNCHANGED <<tv, beam, reg, gap, age, last, seen, polled>>

Reset ==
  /\ beam' = FreshBeam /\ status' = FreshStatus /\ reg' = FreshReg
  /\ gap' = 0 /\ last' = 0 /\ seen' = 0 /\ polled' = 0
  /\ age' = FreshAge
  /\ UNCHANGED tv

Step ==
  \/ Dot \/ ReadStatus \/ PollNmi \/ PollFrame
  \/ \E on \in BOOLEAN : WriteControl(on) \/ WriteMask(on)

Next == Step \/ Reset

Spec == Init /\ [][Next]_vars

\* Every iteration of run_cpu_tick runs at least CycleDots dots.
FairSpec == Spec /\ WF_vars(Dot)

-----------------------------------------------------------------------------
(* Properties. *)

InVBlank ==
  \/ beam.scanline = VBlankLine /\ beam.pixel > 0
  \/ beam.scanline > VBlankLine /\ beam.scanline < PreRender - 1
  \/ beam.scanline = PreRender - 1 /\ beam.pixel < Dots - 1

\* VBlank is flagged and an NMI latched in VBlank only, and the program gets at most one NMI for
\* each VBlank: an edge that nobody polled does not survive into the next frame, and toggling
\* the enable bit brings no second one.  A program that polls $2002 instead sees each VBlank
\* once, unless its read falls on the very dot that starts it: then the flag stays and the next
\* read returns it again.
OncePerVBlank ==
  /\ status.vblank \/ status.nmi => InVBlank
  /\ polled + (IF status.nmi THEN 1 ELSE 0) <= 1
  /\ seen <= 1

\* From VBlank to VBlank it is Lines x Dots dots, or one less on NTSC, but never one less twice
\* in a row.
FramesAlternate ==
  [][age # 0 /\ age' = 0 =>
       \/ last' = FullFrame
       \/ last' = FullFrame - 1 /\ tv = "ntsc" /\ last # FullFrame - 1]_vars

\* Frames go on completing, NMIs enabled or not, unless the machine is reset over and over.
FramesComplete == <>[][Step]_vars => []<>status.frame
=============================================================================

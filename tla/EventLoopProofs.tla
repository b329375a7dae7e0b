--------------------------- MODULE EventLoopProofs ----------------------------
(***************************************************************************)
(* For every frame time, every speed of the host and every number of       *)
(* buttons: frames are shown once and on time, and a controller is polled  *)
(* in order.                                                               *)
(***************************************************************************)
EXTENDS EventLoop, Integers, SequenceTheorems, TLAPS

TypeOK ==
  /\ window \in BOOLEAN /\ paused \in BOOLEAN
  /\ pc \in {"poll", "emulate", "show", "limit", "done"}
  /\ nes \in [ready : BOOLEAN, halted : BOOLEAN]
  /\ fresh \in Nat /\ since \in Nat /\ ago \in Nat /\ gap \in Nat

\* Only the window's loop shows anything, and a frame is ready, and not shown yet, only while
\* the machine runs.
Showing ==
  /\ pc \in {"show", "limit"} => window
  /\ window /\ pc \in {"poll", "show", "limit"} => ~nes.ready
  /\ window /\ pc \in {"poll", "limit"} => fresh = 0
  /\ window /\ pc = "emulate" => fresh = IF nes.ready THEN 1 ELSE 0
  /\ pc = "show" => fresh = 1 \/ nes.halted

\* Until the first frame is shown nothing is late.  From the limiter to the next frame
\* last_frame_time is what it was set to, so that the time since the last frame was shown is
\* since; and it makes up, with the gap before it, for the time of a frame.
Timed ==
  /\ pc \in {"poll", "emulate", "show"} =>
       \/ gap = Longest /\ ago = Longest
       \/ since = ago /\ ago + gap >= Target
  /\ pc = "limit" => ago = 0 /\ (gap < Longest => since = gap)

Bits == {0, 1}

\* The controller's index counts the reads since the strobe fell, until all buttons are read.
Polling ==
  /\ pad \in Pads
  /\ poll \in [seen : [0 .. Buttons - 1 -> SUBSET Bits], got : Seq(Bits)]
  /\ \A button \in 0 .. Buttons - 1 : Held(pad, button) \in poll.seen[button]
  /\ Len(poll.got) <= Buttons + 1
  /\ pad.index = IF Len(poll.got) <= Buttons THEN Len(poll.got) ELSE Buttons

IInv == TypeOK /\ Showing /\ Timed /\ Polling /\ PolledInOrder

-----------------------------------------------------------------------------
LEMMA ConstantFacts ==
  /\ Target \in Nat /\ Target > 0 /\ Work \subseteq Nat /\ Nap \in Nat
  /\ Buttons \in Nat /\ Buttons > 0 /\ Longest \in Nat /\ Longest = 2 * Target
BY LoopAssumption, JoypadAssumption DEF Longest

LEMMA MinOfTwo ==
  ASSUME NEW a \in Nat, NEW b \in Nat
  PROVE  Min({a, b}) = IF a <= b THEN a ELSE b
<1> DEFINE m == IF a <= b THEN a ELSE b
<1>1. m \in {a, b} /\ \A y \in {a, b} : m <= y
  OBVIOUS
<1>2. \A x \in {a, b} : (\A y \in {a, b} : x <= y) => x = m
  OBVIOUS
<1> QED
  BY <1>1, <1>2 DEF Min

LEMMA PassedIs ==
  ASSUME NEW t \in Nat, NEW d \in Nat
  PROVE  /\ Passed(t, d) = IF t + d <= Longest THEN t + d ELSE Longest
         /\ Passed(t, d) \in Nat
BY MinOfTwo, ConstantFacts DEF Passed

LEMMA SleepIs ==
  ASSUME NEW t \in Nat
  PROVE  Sleep(t) \in Nat /\ Sleep(t) <= Target /\ Sleep(t) + t >= Target
BY ConstantFacts DEF Sleep

-----------------------------------------------------------------------------
(* What the program and the keys do to the controller. *)

\* What is held is 0 or 1 of each button.
LEMMA HeldIsBit == \A p, button : Held(p, button) \in Bits
BY DEF Held, Bits

LEMMA UnpolledInv ==
  ASSUME NEW p \in Pads, p.index = 0, NEW q, q = Unpolled(p)
  PROVE  /\ q \in [seen : [0 .. Buttons - 1 -> SUBSET Bits], got : Seq(Bits)]
         /\ \A button \in 0 .. Buttons - 1 : Held(p, button) \in q.seen[button]
         /\ q.got = <<>> /\ Len(q.got) = 0
<1>1. <<>> \in Seq(Bits) /\ Len(<<>>) = 0
  BY EmptySeq
<1>2. q.got = <<>> /\ q.seen = [button \in 0 .. Buttons - 1 |-> {Held(p, button)}]
      /\ q = [seen |-> q.seen, got |-> q.got]
  BY DEF Unpolled
<1>3. q.seen \in [0 .. Buttons - 1 -> SUBSET Bits]
  BY <1>2, HeldIsBit
<1> QED
  BY <1>1, <1>2, <1>3

LEMMA NoneRead ==
  ASSUME poll.got = <<>>
  PROVE  PolledInOrder
BY EmptySeq DEF PolledInOrder

LEMMA PollingFacts ==
  ASSUME Polling
  PROVE  /\ pad = [held |-> pad.held, index |-> pad.index, strobe |-> pad.strobe]
         /\ pad.held \subseteq 0 .. Buttons - 1 /\ pad.index \in Nat /\ pad.index <= Buttons
         /\ pad.strobe \in BOOLEAN
         /\ poll = [seen |-> poll.seen, got |-> poll.got]
         /\ poll.seen \in [0 .. Buttons - 1 -> SUBSET Bits] /\ poll.got \in Seq(Bits)
         /\ Len(poll.got) \in Nat
<1>1. /\ pad = [held |-> pad.held, index |-> pad.index, strobe |-> pad.strobe]
      /\ pad.held \subseteq 0 .. Buttons - 1 /\ pad.index \in 0 .. Buttons
      /\ pad.strobe \in BOOLEAN
  BY DEF Polling, Pads
<1>2. /\ poll = [seen |-> poll.seen, got |-> poll.got]
      /\ poll.seen \in [0 .. Buttons - 1 -> SUBSET Bits] /\ poll.got \in Seq(Bits)
  BY DEF Polling
<1>3. Len(poll.got) \in Nat
  BY <1>2, LenProperties
<1> QED
  BY <1>1, <1>2, <1>3, ConstantFacts

\* A button that goes down or up has been in one state more.
LEMMA KeyPolling == Polling /\ PolledInOrder /\ Key => Polling' /\ PolledInOrder'
<1> SUFFICES ASSUME Polling, PolledInOrder, Key PROVE Polling' /\ PolledInOrder'
  OBVIOUS
<1>1. PICK b \in 0 .. Buttons - 1, pressed \in BOOLEAN :
        /\ pad' = SetButton(pad, b, pressed)
        /\ poll' = [poll EXCEPT !.seen[b] = @ \cup {Held(pad', b)}]
  BY DEF Key
<1>2. /\ pad'.index = pad.index /\ pad'.strobe = pad.strobe
      /\ pad'.held = IF pressed THEN pad.held \cup {b} ELSE pad.held \ {b}
      /\ pad' = [held |-> pad'.held, index |-> pad'.index, strobe |-> pad'.strobe]
  BY <1>1, PollingFacts DEF SetButton
<1>3. pad' \in Pads
  BY <1>1, <1>2, PollingFacts, ConstantFacts DEF Pads
<1>4. /\ poll'.got = poll.got
      /\ poll'.seen = [poll.seen EXCEPT ![b] = poll.seen[b] \cup {Held(pad', b)}]
      /\ poll' = [seen |-> poll'.seen, got |-> poll'.got]
  <2>1. poll' = [poll EXCEPT !.seen = [poll.seen EXCEPT ![b] = poll.seen[b] \cup {Held(pad', b)}]]
    BY <1>1
  <2> QED
    BY <2>1, PollingFacts
<1>5. poll'.seen \in [0 .. Buttons - 1 -> SUBSET Bits]
  <2>1. poll.seen[b] \cup {Held(pad', b)} \in SUBSET Bits
    <3>1. poll.seen[b] \in SUBSET Bits
      BY <1>1, PollingFacts
    <3> QED
      BY <3>1, HeldIsBit
  <2> HIDE DEF Bits
  <2> QED
    BY <1>1, <1>4, <2>1, PollingFacts, Zenon
<1>6. \A c \in 0 .. Buttons - 1 : Held(pad', c) \in poll'.seen[c] /\ poll.seen[c] \subseteq poll'.seen[c]
  <2> SUFFICES ASSUME NEW c \in 0 .. Buttons - 1
               PROVE  Held(pad', c) \in poll'.seen[c] /\ poll.seen[c] \subseteq poll'.seen[c]
    OBVIOUS
  <2>1. CASE c = b
    BY <1>4, <2>1, PollingFacts
  <2>2. CASE c # b
    <3>1. poll'.seen[c] = poll.seen[c] /\ (c \in pad'.held <=> c \in pad.held)
      BY <1>2, <1>4, <2>2, PollingFacts
    <3>2. Held(pad', c) = Held(pad, c) /\ Held(pad, c) \in poll.seen[c]
      BY <3>1 DEF Held, Polling
    <3> QED
      BY <3>1, <3>2
  <2> QED
    BY <2>1, <2>2
<1>7. Polling'
  BY <1>2, <1>3, <1>4, <1>5, <1>6, PollingFacts DEF Polling
<1>8. PolledInOrder'
  <2> SUFFICES ASSUME NEW n \in 1 .. Len(poll.got)
               PROVE  poll.got[n] \in IF n <= Buttons THEN poll'.seen[n - 1] ELSE {1}
    BY <1>4 DEF PolledInOrder
  <2>1. poll.got[n] \in IF n <= Buttons THEN poll.seen[n - 1] ELSE {1}
    BY DEF PolledInOrder
  <2>2. n <= Buttons => n - 1 \in 0 .. Buttons - 1
    BY PollingFacts, ConstantFacts
  <2> QED
    BY <1>6, <2>1, <2>2
<1> QED
  BY <1>7, <1>8

\* A falling strobe begins a new poll; any other write leaves the index where it is.
LEMMA StrobePolling ==
  Polling /\ PolledInOrder /\ (\E on \in BOOLEAN : Strobe(on)) => Polling' /\ PolledInOrder'
<1> SUFFICES ASSUME Polling, PolledInOrder, NEW on \in BOOLEAN, Strobe(on)
             PROVE  Polling' /\ PolledInOrder'
  OBVIOUS
<1>1. /\ pad' = WriteStrobe(pad, on)
      /\ poll' = IF pad.strobe /\ ~on THEN Unpolled(pad') ELSE poll
  BY DEF Strobe
<1>2. /\ pad'.held = pad.held /\ pad'.strobe = on
      /\ pad'.index = IF pad.strobe /\ ~on THEN 0 ELSE pad.index
      /\ pad' = [held |-> pad'.held, index |-> pad'.index, strobe |-> pad'.strobe]
  BY <1>1, PollingFacts DEF WriteStrobe
<1>3. pad' \in Pads
  <2>1. pad'.held \in SUBSET (0 .. Buttons - 1) /\ pad'.index \in 0 .. Buttons
    BY <1>2, PollingFacts, ConstantFacts
  <2> QED
    BY <1>2, <2>1 DEF Pads
<1>4. CASE pad.strobe /\ ~on
  <2>1. pad'.index = 0 /\ poll' = Unpolled(pad')
    BY <1>1, <1>2, <1>4
  <2>2. /\ poll' \in [seen : [0 .. Buttons - 1 -> SUBSET Bits], got : Seq(Bits)]
        /\ \A button \in 0 .. Buttons - 1 : Held(pad', button) \in poll'.seen[button]
        /\ poll'.got = <<>> /\ Len(poll'.got) = 0
    BY <1>3, <2>1, UnpolledInv
  <2>3. Polling'
    BY <1>3, <2>1, <2>2, ConstantFacts DEF Polling
  <2>4. PolledInOrder'
    BY <2>2, ConstantFacts DEF PolledInOrder
  <2> QED
    BY <2>3, <2>4
<1>5. CASE ~(pad.strobe /\ ~on)
  <2>1. pad'.index = pad.index /\ poll' = poll
    BY <1>1, <1>2, <1>5
  <2>2. \A button : Held(pad', button) = Held(pad, button)
    BY <1>2 DEF Held
  <2> QED
    BY <1>3, <2>1, <2>2 DEF Polling, PolledInOrder
<1> QED
  BY <1>4, <1>5

\* A read returns the button it is the turn of, or a one behind the last.
LEMMA ReadPolling == Polling /\ PolledInOrder /\ Read => Polling' /\ PolledInOrder'
<1> SUFFICES ASSUME Polling, PolledInOrder, Read PROVE Polling' /\ PolledInOrder'
  OBVIOUS
<1> DEFINE len == Len(poll.got)
<1>1. /\ pad' = AfterRead(pad)
      /\ poll' = IF pad.strobe \/ len > Buttons THEN poll
                 ELSE [poll EXCEPT !.got = Append(@, Bit(pad))]
  BY DEF Read
<1>2. len \in Nat /\ len <= Buttons + 1 /\ pad.index = IF len <= Buttons THEN len ELSE Buttons
  BY PollingFacts DEF Polling
<1>3. CASE pad.strobe \/ len > Buttons
  <2>1. pad.strobe \/ pad.index >= Buttons
    BY <1>2, <1>3, ConstantFacts
  <2>2. pad' = pad /\ poll' = poll
    BY <1>1, <1>3, <2>1 DEF AfterRead
  <2> QED
    BY <2>2 DEF Polling, PolledInOrder
<1>4. CASE ~(pad.strobe \/ len > Buttons)
  <2>1. /\ pad.index = len /\ len <= Buttons /\ ~pad.strobe
        /\ poll' = [poll EXCEPT !.got = Append(poll.got, Bit(pad))]
    BY <1>1, <1>2, <1>4, ConstantFacts
  <2>2. Bit(pad) \in Bits /\ Bit(pad) \in IF len + 1 <= Buttons THEN poll.seen[len] ELSE {1}
    <3>1. CASE len < Buttons
      <4>1. Bit(pad) = Held(pad, len) /\ len \in 0 .. Buttons - 1
        BY <1>2, <2>1, <3>1, ConstantFacts DEF Bit, Held
      <4>2. Held(pad, len) \in poll.seen[len]
        BY <4>1 DEF Polling
      <4> QED
        BY <1>2, <3>1, <4>1, <4>2, HeldIsBit, ConstantFacts
    <3>2. CASE len = Buttons
      BY <1>2, <2>1, <3>2, ConstantFacts DEF Bit, Bits
    <3> QED
      BY <1>2, <2>1, <3>1, <3>2, ConstantFacts
  <2>3. /\ poll'.seen = poll.seen /\ poll'.got = Append(poll.got, Bit(pad))
        /\ poll' = [seen |-> poll'.seen, got |-> poll'.got]
    BY <2>1, PollingFacts
  <2>4. /\ poll'.got \in Seq(Bits) /\ Len(poll'.got) = len + 1
        /\ poll'.got[len + 1] = Bit(pad)
        /\ \A n \in 1 .. len : poll'.got[n] = poll.got[n]
    BY <2>2, <2>3, AppendProperties, PollingFacts
  <2>5. /\ pad'.held = pad.held /\ pad'.strobe = pad.strobe
        /\ pad'.index = IF len < Buttons THEN len + 1 ELSE len
        /\ pad' = [held |-> pad'.held, index |-> pad'.index, strobe |-> pad'.strobe]
    <3>1. CASE len < Buttons
      <4>1. pad' = [pad EXCEPT !.index = pad.index + 1]
        BY <1>1, <1>2, <2>1, <3>1, ConstantFacts DEF AfterRead
      <4> QED
        BY <2>1, <3>1, <4>1, PollingFacts
    <3>2. CASE ~(len < Buttons)
      <4>1. pad' = pad
        BY <1>1, <1>2, <2>1, <3>2, ConstantFacts DEF AfterRead
      <4> QED
        BY <2>1, <3>2, <4>1, PollingFacts
    <3> QED
      BY <3>1, <3>2
  <2>6. pad' \in Pads
    <3>1. pad'.held \in SUBSET (0 .. Buttons - 1) /\ pad'.index \in 0 .. Buttons
      BY <1>2, <2>1, <2>5, PollingFacts, ConstantFacts
    <3> QED
      BY <2>5, <3>1, PollingFacts DEF Pads
  <2>7. \A button : Held(pad', button) = Held(pad, button)
    BY <2>5 DEF Held
  <2>8. /\ Len(poll'.got) <= Buttons + 1
        /\ pad'.index = IF Len(poll'.got) <= Buttons THEN Len(poll'.got) ELSE Buttons
    BY <1>2, <2>1, <2>4, <2>5, ConstantFacts
  <2>9. Polling'
    BY <2>3, <2>4, <2>6, <2>7, <2>8, PollingFacts DEF Polling
  <2>10. PolledInOrder'
    <3> SUFFICES ASSUME NEW n \in 1 .. len + 1
                 PROVE  poll'.got[n] \in IF n <= Buttons THEN poll.seen[n - 1] ELSE {1}
      BY <2>3, <2>4 DEF PolledInOrder
    <3>1. CASE n <= len
      <4>1. n \in 1 .. len
        BY <1>2, <3>1
      <4> QED
        BY <2>4, <4>1 DEF PolledInOrder
    <3>2. CASE n = len + 1
      <4>1. n - 1 = len
        BY <1>2, <3>2
      <4> QED
        BY <2>2, <2>4, <3>2, <4>1
    <3> QED
      BY <1>2, <3>1, <3>2
  <2> QED
    BY <2>9, <2>10
<1> QED
  BY <1>3, <1>4

LEMMA PollingKept == Polling /\ PolledInOrder /\ UNCHANGED <<pad, poll>> => Polling' /\ PolledInOrder'
BY DEF Polling, PolledInOrder

LEMMA ProgramPolling == Polling /\ PolledInOrder /\ Program => Polling' /\ PolledInOrder'
BY StrobePolling, ReadPolling, PollingKept DEF Program

-----------------------------------------------------------------------------
(* The loop. *)

LEMMA InitInv == Init => IInv
<1> SUFFICES ASSUME Init PROVE IInv
  OBVIOUS
<1>1. /\ pc = "poll" /\ window \in BOOLEAN /\ paused = FALSE
      /\ nes = [ready |-> FALSE, halted |-> FALSE]
      /\ pad = NewPad /\ poll = Unpolled(pad)
      /\ since = 0 /\ fresh = 0 /\ ago = Longest /\ gap = Longest
  BY DEF Init, NewLoop
<1>2. TypeOK /\ Showing /\ Timed
  BY <1>1, ConstantFacts DEF TypeOK, Showing, Timed
<1>3. pad \in Pads /\ pad.index = 0
  BY <1>1, ConstantFacts DEF NewPad, Pads
<1>4. /\ poll \in [seen : [0 .. Buttons - 1 -> SUBSET Bits], got : Seq(Bits)]
      /\ \A button \in 0 .. Buttons - 1 : Held(pad, button) \in poll.seen[button]
      /\ poll.got = <<>> /\ Len(poll.got) = 0
  BY <1>1, <1>3, UnpolledInv
<1>5. Polling
  BY <1>3, <1>4, ConstantFacts DEF Polling
<1> QED
  BY <1>2, <1>4, <1>5, NoneRead DEF IInv

LEMMA EventInv == IInv /\ (Quit \/ Space \/ Reset) => IInv'
<1>1. IInv /\ (Quit \/ Space \/ Reset) => UNCHANGED <<pad, poll>>
  BY DEF Quit, Space, Reset
<1>2. IInv /\ Quit => TypeOK' /\ Showing' /\ Timed'
  BY DEF IInv, TypeOK, Showing, Timed, Quit, times
<1>3. IInv /\ Space => TypeOK' /\ Showing' /\ Timed'
  BY DEF IInv, TypeOK, Showing, Timed, Space, times
<1>4. IInv /\ Reset => TypeOK' /\ Showing' /\ Timed'
  BY DEF IInv, TypeOK, Showing, Timed, Reset, times, loop
<1> QED
  BY <1>1, <1>2, <1>3, <1>4, PollingKept DEF IInv

LEMMA KeyInv == IInv /\ Key => IInv'
<1>1. IInv /\ Key => TypeOK' /\ Showing' /\ Timed'
  BY DEF IInv, TypeOK, Showing, Timed, Key, times, loop
<1> QED
  BY <1>1, KeyPolling DEF IInv

LEMMA EndPollInv == IInv /\ EndPoll => IInv'
<1> SUFFICES ASSUME IInv, EndPoll PROVE IInv'
  OBVIOUS
<1>1. PICK d \in Nat : since' = Passed(since, d) /\ ago' = Passed(ago, d)
  <2>1. (IF paused THEN Nap ELSE 0) \in Nat
    BY ConstantFacts
  <2> QED
    BY <2>1 DEF EndPoll
<1>2. /\ pc = "poll" /\ pc' \in {"poll", "emulate"} /\ window' = window /\ paused' = paused
      /\ nes' = nes /\ fresh' = fresh /\ gap' = gap /\ UNCHANGED <<pad, poll>>
  BY DEF EndPoll, Polled
<1>3. /\ since \in Nat /\ ago \in Nat /\ gap \in Nat
      /\ (gap = Longest /\ ago = Longest) \/ (since = ago /\ ago + gap >= Target)
  BY <1>2 DEF IInv, TypeOK, Timed
<1>4. /\ since' \in Nat /\ ago' \in Nat
      /\ (gap = Longest /\ ago' = Longest) \/ (since' = ago' /\ ago' + gap >= Target)
  <2>1. /\ since' = IF since + d <= Longest THEN since + d ELSE Longest
        /\ ago' = IF ago + d <= Longest THEN ago + d ELSE Longest
        /\ since' \in Nat /\ ago' \in Nat
    BY <1>1, <1>3, PassedIs
  <2> QED
    BY <1>1, <1>3, <2>1, ConstantFacts
<1>5. TypeOK' /\ Showing' /\ Timed'
  BY <1>2, <1>4 DEF IInv, TypeOK, Showing, Timed
<1> QED
  BY <1>2, <1>5, PollingKept DEF IInv

LEMMA TickInv == IInv /\ Tick => IInv'
<1> SUFFICES ASSUME IInv, Tick PROVE IInv'
  OBVIOUS
<1>1. PICK completes \in BOOLEAN, halts \in BOOLEAN : Ticked(completes, halts)
  BY DEF Tick
<1>2. /\ pc = "emulate" /\ window /\ ~nes.ready /\ ~nes.halted /\ fresh = 0
      /\ UNCHANGED <<window, pc, paused, since, ago, gap>>
  BY DEF IInv, Showing, Tick, Emulates, loop, times
<1>3. /\ nes'.ready = completes /\ nes' \in [ready : BOOLEAN, halted : BOOLEAN]
      /\ fresh' = IF completes THEN 1 ELSE 0
  <2>1. Min({1, 2}) = 1
    BY MinOfTwo
  <2>2. nes' = [ready |-> completes, halted |-> halts]
    BY <1>1, <1>2 DEF Ticked
  <2> QED
    BY <1>1, <1>2, <2>1, <2>2 DEF Ticked
<1>4. TypeOK' /\ Showing' /\ Timed'
  BY <1>2, <1>3 DEF IInv, TypeOK, Showing, Timed
<1> QED
  BY <1>4, ProgramPolling DEF IInv, Tick

LEMMA EndFrameInv == IInv /\ EndFrame => IInv'
<1> SUFFICES ASSUME IInv, EndFrame PROVE IInv'
  OBVIOUS
<1>1. /\ pc = "emulate" /\ window /\ (nes.ready \/ nes.halted) /\ pc' = "show"
      /\ nes'.ready = FALSE /\ nes'.halted = nes.halted
      /\ nes' \in [ready : BOOLEAN, halted : BOOLEAN]
      /\ UNCHANGED <<window, paused, pad, poll, fresh, since, ago, gap>>
  BY DEF IInv, TypeOK, EndFrame, Emulates, Cleared, times
<1>2. TypeOK' /\ Showing' /\ Timed'
  BY <1>1 DEF IInv, TypeOK, Showing, Timed
<1> QED
  BY <1>1, <1>2, PollingKept DEF IInv

\* What a step that shows a frame makes of the times.
LEMMA ShowTimes ==
  ASSUME IInv, Show
  PROVE  /\ since' \in Nat /\ gap' \in Nat /\ ago' = 0
         /\ gap' < Longest => since' = gap'
         /\ gap < Longest => gap + gap' >= Target
<1>1. PICK w \in Nat : since' = Passed(since, w) /\ gap' = Passed(ago, w)
  BY ConstantFacts DEF Show
<1>2. /\ since \in Nat /\ ago \in Nat /\ gap \in Nat
      /\ (gap = Longest /\ ago = Longest) \/ (since = ago /\ ago + gap >= Target)
  BY DEF IInv, TypeOK, Timed, Show
<1>3. /\ since' = IF since + w <= Longest THEN since + w ELSE Longest
      /\ gap' = IF ago + w <= Longest THEN ago + w ELSE Longest
      /\ since' \in Nat /\ gap' \in Nat
  BY <1>1, <1>2, PassedIs
<1>4. ago' = 0
  BY DEF Show
<1> QED
  BY <1>1, <1>2, <1>3, <1>4, ConstantFacts

LEMMA ShowInv == IInv /\ Show => IInv'
<1> SUFFICES ASSUME IInv, Show PROVE IInv'
  OBVIOUS
<1>1. /\ pc = "show" /\ pc' \in {"limit", "done"} /\ fresh' = 0
      /\ UNCHANGED <<window, paused, nes, pad, poll>>
  BY DEF Show
<1>2. TypeOK' /\ Showing' /\ Timed'
  BY <1>1, ShowTimes DEF IInv, TypeOK, Showing, Timed
<1> QED
  BY <1>1, <1>2, PollingKept DEF IInv

LEMMA LimitInv == IInv /\ Limit => IInv'
<1> SUFFICES ASSUME IInv, Limit PROVE IInv'
  OBVIOUS
<1>1. /\ pc = "limit" /\ pc' = "poll" /\ since' = Sleep(since) /\ ago' = Passed(ago, Sleep(since))
      /\ UNCHANGED <<window, paused, nes, pad, poll, fresh, gap>>
  BY DEF Limit
<1>2. since \in Nat /\ gap \in Nat /\ ago = 0 /\ (gap < Longest => since = gap)
  BY <1>1 DEF IInv, TypeOK, Timed
<1>3. ago' = since' /\ since' \in Nat /\ ago' + gap >= Target
  <2> DEFINE nap == Sleep(since)
  <2>1. nap \in Nat /\ nap <= Target /\ nap + since >= Target /\ since' = nap
    BY <1>1, <1>2, SleepIs
  <2>2. ago' = IF 0 + nap <= Longest THEN 0 + nap ELSE Longest
    BY <1>1, <1>2, <2>1, PassedIs
  <2> HIDE DEF nap
  <2> QED
    BY <1>2, <2>1, <2>2, ConstantFacts
<1>4. TypeOK' /\ Showing' /\ Timed'
  BY <1>1, <1>3 DEF IInv, TypeOK, Showing, Timed
<1> QED
  BY <1>1, <1>4, PollingKept DEF IInv

LEMMA TickHeadlessInv == IInv /\ TickHeadless => IInv'
<1> SUFFICES ASSUME IInv, TickHeadless PROVE IInv'
  OBVIOUS
<1>1. /\ pc = "emulate" /\ ~window /\ pc' = "poll"
      /\ UNCHANGED <<window, paused, fresh, since, ago, gap>>
  BY DEF TickHeadless, times
<1>2. nes' \in [ready : BOOLEAN, halted : BOOLEAN]
  BY DEF TickHeadless, IInv, TypeOK
<1>3. TypeOK' /\ Showing' /\ Timed'
  BY <1>1, <1>2 DEF IInv, TypeOK, Showing, Timed
<1> QED
  BY <1>3, ProgramPolling DEF IInv, TickHeadless

LEMMA NextInv == IInv /\ [Next]_vars => IInv'
<1>1. IInv /\ UNCHANGED vars => IInv'
  BY PollingKept DEF IInv, TypeOK, Showing, Timed, vars, loop, times
<1> QED
  BY <1>1, EventInv, KeyInv, EndPollInv, TickInv, EndFrameInv, ShowInv, LimitInv, TickHeadlessInv
     DEF Next, Step, Ended

THEOREM Invariance == Spec => []IInv
BY InitInv, NextInv, PTL DEF Spec

\* Each frame the machine completes is shown once, and before the next one is begun, whatever
\* pauses and resets come between.
THEOREM EachShownOnce == Spec => []ShownOnce
<1>1. IInv => ShownOnce
  BY DEF IInv, Showing, ShownOnce
<1> QED
  BY <1>1, Invariance, PTL

\* For every number of buttons, a poll of the controller returns one bit for each button in
\* order, each a state the button was in after the strobe fell, and then ones.
THEOREM PollsInOrder == Spec => []PolledInOrder
<1>1. IInv => PolledInOrder
  BY DEF IInv
<1> QED
  BY <1>1, Invariance, PTL

\* On a host of any speed, and for any time of a frame, two frames never take less than the time
\* of one.
THEOREM FramesOnTime == Spec => PairsOnTime
<1>1. IInv /\ [Next]_vars => [Show /\ gap < Longest => gap + gap' >= Target]_vars
  BY ShowTimes
<1> QED
  BY <1>1, Invariance, PTL DEF Spec, PairsOnTime
=============================================================================

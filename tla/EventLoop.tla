------------------------------ MODULE EventLoop -------------------------------
(***************************************************************************)
(* EventLoop::run: poll every event, run the machine until a frame is      *)
(* ready, show it, sleep for what is left of the frame's time; or, without *)
(* a window, poll and tick.  The machine is what the loop sees of it, and  *)
(* the first controller, which the loop's key events set and the program   *)
(* polls; nothing is ever pressed on the second.                           *)
(* Time is counted from last_frame_time, in units of which a frame's       *)
(* emulation and rendering take one or more and a nap in pause takes Nap.  *)
(***************************************************************************)
EXTENDS Joypad, FiniteSetsExt, Sequences

CONSTANTS
  Target,  \* target_frame_time
  Work,    \* what emulating, rendering and showing a frame may take
  Nap      \* the sleep of a paused iteration

ASSUME LoopAssumption ==
  Target \in Nat \ {0} /\ Work \subseteq Nat /\ Work # {} /\ Nap \in Nat \ {0}

VARIABLES
  window,   \* whether the loop has one
  pc,       \* "poll", "emulate", "show", "limit", "done"
  paused,
  nes,      \* ready: a frame is complete; halted: a KIL opcode stopped the CPU
  since,    \* time since last_frame_time
  pad,      \* joypad1
  poll,     \* history: seen: each button's states since the strobe last fell; got: what the
            \* reads have returned since then, one more than there are buttons
  fresh,    \* history: frames completed since the last one was shown, up to 2
  ago,      \* history: time since the last one was shown
  gap       \* history: time between that one and the one before

loop == <<window, pc, paused>>
times == <<since, ago, gap>>
vars == <<loop, nes, pad, poll, fresh, times>>

\* Times are bounded by the largest that anything is compared with.
Longest == 2 * Target

Passed(t, d) == Min({t + d, Longest})

Held(p, button) == IF button \in p.held THEN 1 ELSE 0

Unpolled(p) == [seen |-> [button \in 0 .. Buttons - 1 |-> {Held(p, button)}], got |-> <<>>]

\* EventLoop::new
NewLoop == window \in BOOLEAN /\ paused = FALSE

Init ==
  /\ NewLoop
  /\ pc = "poll"
  /\ nes = [ready |-> FALSE, halted |-> FALSE]
  /\ pad = NewPad /\ poll = Unpolled(pad)
  /\ since = 0 /\ fresh = 0 /\ ago = Longest /\ gap = Longest

-----------------------------------------------------------------------------
\* Quit, or Escape
Quit == pc = "poll" /\ pc' = "done" /\ UNCHANGED <<window, paused, nes, pad, poll, fresh, times>>

\* Space, which only the window's loop handles
Space ==
  /\ pc = "poll" /\ window
  /\ paused' = ~paused
  /\ UNCHANGED <<window, pc, nes, pad, poll, fresh, times>>

\* F1, with a window or without: Nes::reset, which leaves the controllers as they are.
Reset ==
  /\ pc = "poll"
  /\ nes' = [ready |-> FALSE, halted |-> FALSE]
  /\ UNCHANGED <<loop, pad, poll, fresh, times>>

\* Every other key that means something is a button going down or up.
Key ==
  /\ pc = "poll"
  /\ \E button \in 0 .. Buttons - 1, pressed \in BOOLEAN :
       /\ pad' = SetButton(pad, button, pressed)
       /\ poll' = [poll EXCEPT !.seen[button] = @ \cup {Held(pad', button)}]
  /\ UNCHANGED <<loop, nes, fresh, times>>

\* No event is left.
Polled == pc' = IF paused THEN "poll" ELSE "emulate"

EndPoll ==
  /\ pc = "poll"
  /\ Polled
  /\ LET d == IF paused THEN Nap ELSE 0
     IN  since' = Passed(since, d) /\ ago' = Passed(ago, d)
  /\ UNCHANGED <<window, paused, nes, pad, poll, fresh, gap>>

\* What the program may do to the controller in one tick: nothing, write $4016, read it.
Strobe(on) ==
  /\ pad' = WriteStrobe(pad, on)
  /\ poll' = IF pad.strobe /\ ~on THEN Unpolled(pad') ELSE poll

Read ==
  /\ pad' = AfterRead(pad)
  /\ poll' = IF pad.strobe \/ Len(poll.got) > Buttons THEN poll
             ELSE [poll EXCEPT !.got = Append(@, Bit(pad))]

Program ==
  \/ UNCHANGED <<pad, poll>>
  \/ ~nes.halted /\ ((\E on \in BOOLEAN : Strobe(on)) \/ Read)

\* One call of run_cpu_tick.  A tick that completes a frame raises the ready flag; an opcode may
\* halt the CPU, and then the PPU runs on while the loop ticks.
Ticked(completes, halts) ==
  /\ nes' = [ready |-> nes.ready \/ completes, halted |-> nes.halted \/ halts]
  /\ fresh' = IF completes THEN Min({fresh + 1, 2}) ELSE fresh

\* The condition of the loop around run_cpu_tick
Emulates_Either == ~(nes.ready /\ nes.halted)
Emulates == ~nes.ready /\ ~nes.halted

Tick ==
  /\ pc = "emulate" /\ window /\ Emulates
  /\ \E completes, halts \in BOOLEAN : Ticked(completes, halts)
  /\ Program
  /\ UNCHANGED <<loop, times>>

\* clear_ready_to_render
Cleared_Kept == nes' = nes
Cleared == nes' = [nes EXCEPT !.ready = FALSE]

EndFrame ==
  /\ pc = "emulate" /\ window /\ ~Emulates
  /\ pc' = "show"
  /\ Cleared
  /\ UNCHANGED <<window, paused, pad, poll, fresh, times>>

\* render_frame; an error of SDL's ends the loop.  All the work of the frame is counted here.
Show ==
  /\ pc = "show"
  /\ pc' \in {"limit", "done"}
  /\ fresh' = 0
  /\ \E w \in Work : since' = Passed(since, w) /\ gap' = Passed(ago, w)
  /\ ago' = 0
  /\ UNCHANGED <<window, paused, nes, pad, poll>>

\* The frame limiter.  last_frame_time is set before the sleep, so that the time of the next
\* frame includes it.
Sleep_Inverted(elapsed) == IF elapsed > Target THEN elapsed - Target ELSE 0
Sleep(elapsed) == IF elapsed < Target THEN Target - elapsed ELSE 0

Limit ==
  /\ pc = "limit" /\ pc' = "poll"
  /\ since' = Sleep(since) /\ ago' = Passed(ago, Sleep(since))
  /\ UNCHANGED <<window, paused, nes, pad, poll, fresh, gap>>

\* Without a window there is nothing to show and ready is never cleared.
TickHeadless ==
  /\ pc = "emulate" /\ ~window /\ pc' = "poll"
  /\ \E completes, halts \in BOOLEAN :
       nes' = [ready |-> nes.ready \/ completes, halted |-> nes.halted \/ halts]
  /\ Program
  /\ UNCHANGED <<window, paused, fresh, times>>

Ended == pc = "done" /\ UNCHANGED vars

\* The steps of the loop but its ticks
Step == EndPoll \/ EndFrame \/ Show \/ Limit \/ TickHeadless

Next == Step \/ Tick \/ Quit \/ Space \/ Reset \/ Key \/ Ended

Spec == Init /\ [][Next]_vars

\* The thread runs, and a machine that is ticked over and over completes a frame.
CompletesFrame == Tick /\ nes'.ready /\ nes'.halted = nes.halted

FairSpec == Spec /\ WF_vars(Step) /\ SF_vars(CompletesFrame)

-----------------------------------------------------------------------------
(* Properties. *)

\* Each frame the machine completes is shown once, and before the next one is begun, whatever
\* pauses and resets come between; only a halted machine is shown as it stands.
ShownOnce ==
  /\ window /\ pc = "poll" => ~nes.ready /\ fresh = 0
  /\ pc = "show" => fresh = 1 \/ nes.halted

\* Two frames never take less than the time of one: a frame that was shown early is made up
\* for by the sleep before the next.
PairsOnTime == [][Show /\ gap < Longest => gap + gap' >= Target]_vars

\* A poll of the controller, however many frames and key events come in the middle of it, returns
\* one bit for each button in order, each a state the button was in after the strobe fell, and
\* then ones; so a poll that no event cut is the state of the controller when it began.
PolledInOrder ==
  \A n \in 1 .. Len(poll.got) :
    poll.got[n] \in IF n <= Buttons THEN poll.seen[n - 1] ELSE {1}

\* The loop goes on polling its events, or has ended, although the emulation of a frame in the
\* middle of it has no bound of its own: paused, halted, reset, with a window or without.
Responsive == []<>(pc \in {"poll", "done"})
=============================================================================

-------------------------------- MODULE Joypad --------------------------------
(***************************************************************************)
(* A controller as the program sees it: the buttons as they are held at    *)
(* this moment, an index that each read advances, and the strobe that      *)
(* stops it and, falling, returns it to the first button.                  *)
(***************************************************************************)
EXTENDS Naturals

CONSTANT Buttons  \* how many a controller has: 8

ASSUME JoypadAssumption == Buttons \in Nat \ {0}

\* button_states, a set of the buttons' numbers, button_index and strobe
Pads == [held : SUBSET (0 .. Buttons - 1), index : 0 .. Buttons, strobe : BOOLEAN]

NewPad == [held |-> {}, index |-> 0, strobe |-> FALSE]

WriteStrobe_KeepsIndex(pad, on) == [pad EXCEPT !.strobe = on]

WriteStrobe(pad, on) ==
  [pad EXCEPT !.strobe = on, !.index = IF pad.strobe /\ ~on THEN 0 ELSE @]

\* What a read returns and leaves: after the last button ones, and no further.
Bit(pad) == IF pad.index >= Buttons \/ pad.index \in pad.held THEN 1 ELSE 0

AfterRead(pad) ==
  IF pad.index >= Buttons \/ pad.strobe THEN pad ELSE [pad EXCEPT !.index = @ + 1]

SetButton(pad, button, pressed) ==
  [pad EXCEPT !.held = IF pressed THEN @ \cup {button} ELSE @ \ {button}]
=============================================================================

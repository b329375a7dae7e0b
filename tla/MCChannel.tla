----------------------------- MODULE MCChannel -------------------------------
(* Periods of 0 to 5, two levels and a shift register of four bits. *)
EXTENDS Channel

MCControls ==
  {[high |-> {1}, loop |-> FALSE, constant |-> FALSE, volume |-> 1],
   [high |-> {0}, loop |-> TRUE, constant |-> TRUE, volume |-> 1]}

\* A sweep up, in every second half frame, and one down, in every one.
MCSweeps ==
  {[enabled |-> TRUE, period |-> 1, negate |-> FALSE, shift |-> 1],
   [enabled |-> TRUE, period |-> 0, negate |-> TRUE, shift |-> 1]}
=============================================================================

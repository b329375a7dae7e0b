------------------------------- MODULE MCScroll -------------------------------
(* Name tables of two columns and two rows of tiles, four visible lines of two tiles. *)
EXTENDS Scroll

CONSTANTS Setup, MaxAccesses \* register accesses and resets when VBlank starts, and in all

VARIABLE accesses \* so far

MCMasks == {[bg |-> TRUE, sp |-> TRUE], [bg |-> FALSE, sp |-> FALSE]}

MCInit == Init /\ accesses = 0

\* The first accesses come when VBlank starts, the others where a CPU cycle of three dots puts
\* them, a dot later on each line.
OnTime ==
  IF accesses < Setup THEN beam = [line |-> Lines, dot |-> 0] ELSE (beam.line + beam.dot) % 3 = 0

MCNext ==
  \/ Dot /\ UNCHANGED accesses
  \/ /\ accesses < MaxAccesses /\ OnTime
     /\ (Access \/ Reset) /\ accesses' = accesses + 1

MCSpec == MCInit /\ [][MCNext]_<<vars, accesses>>
=============================================================================

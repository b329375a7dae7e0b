------------------------------ MODULE MCSprites -------------------------------
(* Four sprites for two slots, four visible lines, sprites of two and of four lines. *)
EXTENDS Sprites

CONSTANT MaxWrites \* writes and resets in a behaviour

VARIABLE writes \* so far

MCPages ==
  LET page(ys) == [i \in 0 .. 15 |->
        IF i % 4 = 0 THEN ys[(i \div 4) + 1]
        ELSE IF i % 4 = 1 THEN (i \div 4)
        ELSE IF i % 4 = 2 THEN <<4, 1, 2, 5>>[(i \div 4) + 1]
        ELSE (i \div 8) + 1]
  IN  {page(ys) : ys \in {<<1, 1, 2, 1>>, <<4, 2, 3, 3>>}}

MCMasks == {[bg |-> TRUE, sp |-> TRUE, bgLeft |-> TRUE, spLeft |-> TRUE],
            [bg |-> TRUE, sp |-> FALSE, bgLeft |-> FALSE, spLeft |-> FALSE],
            [bg |-> FALSE, sp |-> FALSE, bgLeft |-> FALSE, spLeft |-> FALSE]}

MCControls == {[height |-> 2, table |-> 0], [height |-> 4, table |-> 0]}

MCOpaque == {p \in (0 .. 1) \X (0 .. 5) \X (0 .. 5) : p[2] # 1 \/ p[3] # 0}

MCInit == Init /\ writes = 0

\* The first Setup writes come when VBlank starts, the others at any dot.
Setup == 2

MCNext ==
  \/ Dot /\ UNCHANGED writes
  \/ writes < MaxWrites /\ (writes < Setup => beam = [line |-> Visible, dot |-> 0]) /\ (Write \/ Reset) /\ writes' = writes + 1

MCSpec == MCInit /\ [][MCNext]_<<vars, writes>>
=============================================================================

------------------------------ MODULE LossyFifo -------------------------------
(***************************************************************************)
(* What the sample path promises: samples, numbered as they are mixed,     *)
(* come out in that order and at most once.  Only the newest sample may be *)
(* lost, by being replaced or dropped; one that a newer one follows        *)
(* cannot.                                                                 *)
(***************************************************************************)
EXTENDS Naturals, Sequences, SequencesExt

VARIABLES
  mixed,   \* number of the newest sample
  buffer,  \* the samples on their way
  played   \* number of the sample played last, 0 before the first

vars == <<mixed, buffer, played>>

Init == mixed = 0 /\ buffer = <<>> /\ played = 0

Put == mixed' = mixed + 1 /\ buffer' = Append(buffer, mixed') /\ UNCHANGED played

Replace == mixed' = mixed + 1 /\ buffer' = Append(Front(buffer), mixed') /\ UNCHANGED played

Drop == buffer' = Front(buffer) /\ UNCHANGED <<mixed, played>>

Get == played' = Head(buffer) /\ buffer' = Tail(buffer) /\ UNCHANGED mixed

Next == Put \/ (buffer # <<>> /\ (Replace \/ Drop \/ Get))

Spec == Init /\ [][Next]_vars
=============================================================================

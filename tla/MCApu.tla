------------------------------- MODULE MCApu ---------------------------------
(* A short sequence of the frame counter, and bytes of two bits. *)
EXTENDS Apu
=============================================================================

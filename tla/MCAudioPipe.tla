----------------------------- MODULE MCAudioPipe ------------------------------
(* A channel of two samples and a DMA long enough to mix three. *)
EXTENDS AudioPipe
=============================================================================

------------------------------ MODULE MCPpuFrame ------------------------------
(* Frames of a few lines and dots, on both TV systems. *)
EXTENDS PpuFrame
=============================================================================

----------------------------- MODULE MCEventLoop ------------------------------
(* Frames that take less or more than their time. *)
EXTENDS EventLoop
=============================================================================

----------------------------- MODULE MCPcmRing -----------------------------
(***************************************************************************)
(* Model checking PcmRing.  The sizes are in the .cfg files: a ring of two *)
(* slots wraps both laps within four samples, blocks of two can be cut by  *)
(* a full ring, and two tokens let a second burst follow a first.          *)
(***************************************************************************)
EXTENDS PcmRing
=============================================================================

---------------------------- MODULE MCBoundedBuffer ----------------------------
(* A buffer of three slots; items modulo five. *)
EXTENDS BoundedBuffer
==============================================================================

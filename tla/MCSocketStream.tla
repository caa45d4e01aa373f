--------------------------- MODULE MCSocketStream ---------------------------
(* SocketStream with low bytes of two values and buffers of four cells: sizes
   carry into the high byte at 2 and at 4, and the pointers wrap at 8, during
   the run. *)
EXTENDS SocketStream
=============================================================================

--------------------------- MODULE MCRecvReorder ---------------------------
(***************************************************************************)
(* RecvReorder on a sequence space of 16 numbers and a window of 3; the    *)
(* peer starts just before the wrap so that a handful of frames cross it.  *)
(***************************************************************************)
EXTENDS RecvReorder
=============================================================================

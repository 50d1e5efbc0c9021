----------------------------- MODULE MCStaMlme -----------------------------
(* Model-checking instance of StaMlme; the .cfg files give the bounds.      *)
EXTENDS StaMlme
=============================================================================

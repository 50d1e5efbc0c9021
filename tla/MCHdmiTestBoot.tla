--------------------------- MODULE MCHdmiTestBoot ---------------------------
(* Model-checking instance of HdmiTestBoot; the .cfg files give the bounds. *)
EXTENDS HdmiTestBoot
=============================================================================

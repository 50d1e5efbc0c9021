---------------------------- MODULE MCCmdThread ----------------------------
(* Model-checking instance of CmdThread; the .cfg files give the bounds.    *)
EXTENDS CmdThread
=============================================================================

---------------------------- MODULE MCSdioXmit -----------------------------
(* Model-checking instance of SdioXmit; the .cfg files give the bounds.     *)
EXTENDS SdioXmit

OneAc  == <<"be">>
TwoAcs == <<"vo", "be">>
=============================================================================

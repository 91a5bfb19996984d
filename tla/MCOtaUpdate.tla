----------------------------- MODULE MCOtaUpdate -----------------------------
(* A small instance of OtaUpdate; the configuration sets the constants.     *)
EXTENDS OtaUpdate
==============================================================================

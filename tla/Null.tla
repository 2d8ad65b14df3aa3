-------------------------------- MODULE Null --------------------------------
(* What stands for null and undefined, for the modules that share it.        *)
CONSTANT None
=============================================================================

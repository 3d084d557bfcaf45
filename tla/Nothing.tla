-------------------------------- MODULE Nothing --------------------------------
(***************************************************************************)
(* The value that stands for no value: Python's None.  It has a module of  *)
(* its own so that components that are checked side by side share it.      *)
(***************************************************************************)
CONSTANT None
=============================================================================

------------------------------- MODULE Absent -------------------------------
(***************************************************************************)
(* The value of everything that is not there: Python's None, a NULL        *)
(* column, a missing key.  Modules that are checked together share it.     *)
(***************************************************************************)
CONSTANT None
=============================================================================

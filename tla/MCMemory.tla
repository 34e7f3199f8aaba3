------------------------------ MODULE MCMemory -------------------------------
(* Words and pages of two bytes, so that a few accesses cross word, page,  *)
(* doubling and buffer limits.                                             *)
EXTENDS Memory
==============================================================================

------------------------------- MODULE MCRamDisk -------------------------------
(***************************************************************************)
(* RamDisk for TLC with integers modulo 48, a "megabyte" of three sectors  *)
(* of two bytes, and sizes that fit, turn negative, turn zero and wrap.    *)
(***************************************************************************)
EXTENDS RamDisk

MCParams == {1, 4, 8, 9}
==============================================================================

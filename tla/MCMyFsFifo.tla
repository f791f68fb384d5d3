------------------------------ MODULE MCMyFsFifo ------------------------------
(***************************************************************************)
(* Instances of MyFsFifo for TLC.                                          *)
(***************************************************************************)
EXTENDS MyFsFifo

\* Nothing is claimed of a fifo that overlapping calls of one kind have
\* damaged, so those states are not extended further.
Undamaged == ~raced
==============================================================================

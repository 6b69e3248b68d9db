------------------------------- MODULE MCMatching -------------------------------
(***************************************************************************)
(* Instances of Matching for TLC.                                          *)
(***************************************************************************)
EXTENDS Matching

CONSTANTS o1, d1, d2

MCStartSeats == [d \in Drivers |-> 1]

=================================================================================

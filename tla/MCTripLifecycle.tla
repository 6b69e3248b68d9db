----------------------------- MODULE MCTripLifecycle -----------------------------
(***************************************************************************)
(* Instances of TripLifecycle for TLC.  Orders and trips are numbered by   *)
(* two sequences, so that a trip and an order of another trip share an id. *)
(***************************************************************************)
EXTENDS TripLifecycle, TLC

CONSTANTS o1, o2, d1, d2, t1, t2, c1, c2, w1

MCNumber == [x \in Orders \cup Trips |-> IF x \in {o1, t2} THEN 1 ELSE 2]
MCSeats  == [o \in Orders |-> 1]
Symmetry == Permutations(Calls) \cup Permutations(Drivers)
================================================================================

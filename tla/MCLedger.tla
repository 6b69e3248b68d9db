-------------------------------- MODULE MCLedger --------------------------------
(***************************************************************************)
(* Instances of Ledger for TLC.                                            *)
(***************************************************************************)
EXTENDS Ledger, TLC

CONSTANTS o1, o2, d1, d2, t1, c1, c2, c3, c4

MCOwner        == [t \in Deposits |-> d1]
MCStartBalance == [d \in Drivers |-> Fee]
CallSymmetry   == Permutations(Calls)
=================================================================================

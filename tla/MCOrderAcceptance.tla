--------------------------- MODULE MCOrderAcceptance ---------------------------
(***************************************************************************)
(* Instances of OrderAcceptance for TLC: two drivers, two orders of one    *)
(* and two seats, and two accept calls: of two drivers for one order, or   *)
(* of one driver for two, or twice for the same.                           *)
(***************************************************************************)
EXTENDS OrderAcceptance, TLC

CONSTANTS o1, o2, d1, d2, c1, c2, t1, t2

MCPassengerCount == o1 :> 1 @@ o2 :> 2
MCStartSeats     == d1 :> 3 @@ d2 :> 2
MCStartBalance   == d1 :> 2 @@ d2 :> 1
================================================================================

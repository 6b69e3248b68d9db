------------------------------ MODULE OrderClaim ------------------------------
(***************************************************************************)
(* What accepting an order promises, whatever the implementation does with *)
(* Redis keys, row locks and retries: in one indivisible step an order     *)
(* that nobody holds becomes some driver's, and that driver pays the       *)
(* commission and gives up the seats.  Nothing else ever changes hands.    *)
(***************************************************************************)
EXTENDS Integers

CONSTANTS
  Orders,           \* order ids
  Drivers,          \* driver ids
  None,             \* "no driver"
  PassengerCount,   \* seats each order needs (0 for a parcel)
  Commission        \* fee taken from the driver's balance at acceptance

VARIABLES
  owner,            \* the driver that holds each order, or None
  seats,            \* free seats of each driver
  balance           \* balance of each driver

claimVars == <<owner, seats, balance>>

Claim(o, d) ==
  /\ owner[o] = None
  /\ seats[d] >= PassengerCount[o]
  /\ balance[d] >= Commission
  /\ owner'   = [owner EXCEPT ![o] = d]
  /\ seats'   = [seats EXCEPT ![d] = @ - PassengerCount[o]]
  /\ balance' = [balance EXCEPT ![d] = @ - Commission]

Init ==
  /\ owner = [o \in Orders |-> None]
  /\ seats \in [Drivers -> Nat]
  /\ balance \in [Drivers -> Nat]

Next == \E o \in Orders, d \in Drivers : Claim(o, d)

Spec == Init /\ [][Next]_claimVars
===============================================================================

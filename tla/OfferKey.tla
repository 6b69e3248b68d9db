-------------------------------- MODULE OfferKey --------------------------------
(***************************************************************************)
(* The time an offer has.  find_driver_for_order_task takes the key        *)
(* driver_offered:{driver} for 130 seconds, so that nobody else offers him *)
(* an order; notify_driver_new_order_task reads from the settings how long *)
(* he may answer, shows the buttons and starts auto_reject_order_task with *)
(* that countdown; accept_order_handler, reject_order_handler and          *)
(* auto_start_trip_task delete the key, whatever order it names.  The      *)
(* setting is the panel's, and the life of the key is not derived from it: *)
(* an offer may outlive its key.  One driver, and the orders he is         *)
(* offered, each once: a driver who let an order pass is skipped for it.   *)
(* Matching has the same steps without the time.                           *)
(***************************************************************************)
EXTENDS Integers

CONSTANTS
  Orders, None,
  KeyLife,     \* ttl of lock_driver_for_offer, in ticks
  Timers       \* what auto_reject_order_seconds may be set to, in ticks

ASSUME ConstantsAssumption ==
  /\ None \notin Orders
  /\ KeyLife \in Nat \ {0} /\ Timers \subseteq Nat

VARIABLES
  key, left,   \* the order the key names, and the time it has left
  offer,       \* order -> how far its offer to the driver is
  age,         \* order -> time since its key was taken, KeyLife when that is over
  clock,       \* order -> time left to answer
  answering,   \* the order whose button is being handled, or None
  wiped        \* orders whose key was deleted for another order, or for none

vars == <<key, left, offer, age, clock, answering, wiped>>

--------------------------------------------------------------------------------

\* Mutant: SET without NX
KeyIgnored(o) == TRUE

KeyFree(o) == key = None

\* lock_driver_for_offer
Locks(o) ==
  /\ offer[o] = "none" /\ KeyFree(o)
  /\ key' = o /\ left' = KeyLife
  /\ offer' = [offer EXCEPT ![o] = "locked"]
  /\ UNCHANGED <<age, clock, answering, wiped>>

\* The notification may have waited for a worker, and the setting may have changed
Sends(o) ==
  /\ offer[o] = "locked"
  /\ offer' = [offer EXCEPT ![o] = "live"]
  /\ \E timer \in Timers : clock' = [clock EXCEPT ![o] = timer]
  /\ UNCHANGED <<key, left, age, answering, wiped>>

\* auto_reject_order_task looks for another driver; key and buttons are left
AutoRejects(o) ==
  /\ offer[o] = "live" /\ clock[o] = 0
  /\ offer' = [offer EXCEPT ![o] = "passed"]
  /\ UNCHANGED <<key, left, age, clock, answering, wiped>>

\* The acceptance that fails and the reject over the limit leave the key
Presses(o) ==
  /\ offer[o] \in {"live", "passed"} /\ answering = None
  /\ offer' = [offer EXCEPT ![o] = "answered"]
  /\ answering' \in {o, None}
  /\ UNCHANGED <<key, left, age, clock, wiped>>

\* unlock_driver_offer, for the order o or for none
Unlocks(o) ==
  /\ key' = None /\ left' = 0
  /\ wiped' = IF key \in {o, None} THEN wiped ELSE wiped \cup {key}

HandlerUnlocks ==
  /\ answering # None
  /\ Unlocks(answering) /\ answering' = None
  /\ UNCHANGED <<offer, age, clock>>

\* auto_start_trip_task, of a trip whose car is full; it may be long after
TripStarts == Unlocks(None) /\ UNCHANGED <<offer, age, clock, answering>>

Tick ==
  /\ left' = IF left > 0 THEN left - 1 ELSE 0
  /\ key' = IF left > 1 THEN key ELSE None
  /\ age' = [o \in Orders |-> IF offer[o] \in {"locked", "live"} /\ age[o] < KeyLife
                             THEN age[o] + 1 ELSE age[o]]
  /\ clock' = [o \in Orders |-> IF offer[o] = "live" /\ clock[o] > 0
                               THEN clock[o] - 1 ELSE clock[o]]
  /\ UNCHANGED <<offer, answering, wiped>>

--------------------------------------------------------------------------------

Init ==
  /\ key = None /\ left = 0
  /\ offer = [o \in Orders |-> "none"]
  /\ age = [o \in Orders |-> 0] /\ clock = [o \in Orders |-> 0]
  /\ answering = None /\ wiped = {}

Next ==
  \/ \E o \in Orders : Locks(o) \/ Sends(o) \/ AutoRejects(o) \/ Presses(o)
  \/ HandlerUnlocks
  \/ TripStarts
  \/ Tick

Spec == Init /\ [][Next]_vars

--------------------------------------------------------------------------------
(* Properties *)

TypeOK ==
  /\ key \in Orders \cup {None} /\ left \in 0..KeyLife
  /\ key = None <=> left = 0
  /\ offer \in [Orders -> {"none", "locked", "live", "passed", "answered"}]
  /\ age \in [Orders -> 0..KeyLife] /\ clock \in [Orders -> Nat]
  /\ answering \in Orders \cup {None} /\ wiped \subseteq Orders

InTime(o) == offer[o] = "live" /\ clock[o] > 0

\* A driver with an offer that may still be answered is offered nothing else for
\* KeyLife from when it was made, however late it is shown and whatever other offers
\* end meanwhile: the key names that order.  Only another order's button or the start
\* of a trip takes it away sooner (unlock_driver_offer); and a timer that is set, or
\* shown so late, that it runs on after KeyLife is not covered by the key.
OfferHoldsDriver ==
  \A o \in Orders : InTime(o) /\ age[o] < KeyLife => key = o \/ o \in wiped
================================================================================

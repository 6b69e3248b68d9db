----------------------------- MODULE MCDriverQueue -----------------------------
(***************************************************************************)
(* DriverQueue and Booking for TLC: the queues of the routes, and the      *)
(* dialogues in which a passenger and a driver choose a route while the    *)
(* office changes the catalogue.  They have no step in common, and a       *)
(* behaviour is one of one part: of the queue, or of one of the dialogues, *)
(* which share the catalogue alone.                                        *)
(***************************************************************************)
EXTENDS DriverQueue, TLC

CONSTANTS
  Calls, MaxDialogues, Keys, MaxChanges, MaxFaults,  \* of Booking
  MaxMishaps,    \* bound: faults and changes of the catalogue under a passenger together
  MaxRides,      \* bound: the routes of the orders a driver holds, and is offered one of
  MaxBusy,       \* bound: what is between its first step and its last in the queue's part
  d1, r1, r2, c1, c2

VARIABLES
  part,
  route, state, data, call, order, dialogue, shared, finds,  \* of Booking
  chat, row, stranded, changes, faults

booking == <<route, state, data, call, order, dialogue, shared, finds, chat, row,
             stranded, changes, faults>>
allVars == <<part, vars, booking>>

\* Both routes are between the same two places: only one of them is in the catalogue
OneWay == [r \in Routes |-> 1]

BK == INSTANCE Booking WITH Way <- OneWay

Symmetry == Permutations(Routes) \cup Permutations(Calls)

NoBooking ==
  /\ route = "-" /\ state = "-" /\ data = "-" /\ call = "-" /\ order = "-"
  /\ dialogue = "-" /\ shared = "-" /\ finds = "-" /\ chat = "-" /\ row = "-"
  /\ stranded = "-" /\ changes = "-" /\ faults = "-"

PartsInit ==
  /\ Init
  /\ \/ part = "queue" /\ NoBooking
     \/ part \in {"passenger", "driver"} /\ BK!Init

\* The office does more to the catalogue while a driver chooses than while a passenger does
Mishaps == faults' + changes' <= MaxMishaps

\* A driver holds orders of a few routes at a time
FewRides ==
  \A d \in Drivers : Cardinality(rides'[d] \cup ({offered'[d]} \ {None})) <= MaxRides

\* Tasks and transactions, and requests of the panel and the reset, of which there is one each
Underway ==
  Cardinality(adding \cup removing \cup {d \in Drivers : open[d] # Nothing})
    + Cardinality({p \in {"panel", "toggle", "reset"} :
                     \/ p = "panel"  /\ panel # NoPanel
                     \/ p = "toggle" /\ toggle # NoToggle
                     \/ p = "reset"  /\ reset # {}})

PartsNext ==
  \/ part = "queue" /\ Next /\ FewRides /\ Underway' <= MaxBusy /\ UNCHANGED <<part, booking>>
  \/ part = "passenger" /\ BK!Passenger /\ Mishaps /\ UNCHANGED <<part, vars>>
  \/ part = "passenger" /\ BK!Office /\ Mishaps /\ UNCHANGED <<part, vars>>
  \/ part = "driver" /\ BK!Driver /\ UNCHANGED <<part, vars>>
  \/ part = "driver" /\ BK!Office /\ UNCHANGED <<part, vars>>

PartsSpec == PartsInit /\ [][PartsNext]_allVars

--------------------------------------------------------------------------------
(* The properties of Booking *)

PartsTypeOK == TypeOK /\ (part # "queue" => BK!TypeOK)

\* One dialogue of a passenger makes one order (finalize_order and its idempotency key),
\* but for messages that were handled at once.
OneOrderPerDialogue == part # "queue" => BK!OneOrderPerDialogue

\* A stored order and an online driver have a route that exists (delete_route), but for
\* a driver whose route was deleted under him.
NoDanglingRoute == part # "queue" => BK!NoDanglingRoute
================================================================================
